---- MODULE Spec2Model ----
(***************************************************************************)
(* A model of the `verify` task-verification engine: the lock store        *)
(* (cache.rs), the content hasher (hasher.rs), the configuration           *)
(* (config.rs) and the runner (runner.rs), as one state machine.           *)
(*                                                                         *)
(* One invocation of `verify run` is a stack machine: every frame of the   *)
(* stack is one activation of a function of runner.rs, and every action    *)
(* advances the frame on top of the stack.  Between invocations the user    *)
(* edits files and the configuration, and a running invocation can be      *)
(* interrupted (SIGINT) at any step.                                       *)
(***************************************************************************)
EXTENDS Integers, Sequences, FiniteSets, TLC

VARIABLES
    config,      \* project -> the items of its verify.yaml, in declaration order
    files,       \* project -> path -> content (NoFile when the file does not exist)
    lock,        \* project -> verify.lock on disk: None or Some(text)
    tmp,         \* project -> verify.lock.tmp on disk: None or Some(text)
    pc,          \* "idle" | "running" | "exited" | "interrupted" | "aborted"
    exit_code,   \* exit status of the last invocation that ended
    names,       \* requested names of the invocation (a sequence, as on the command line)
    force,       \* --force of the invocation
    stack,       \* call stack of the invocation, innermost frame last
    cache,       \* project -> the in-memory CacheState of the run of that project
    executed,    \* project -> the `executed` table of run_checks_recursive (name -> had_failure)
    results,     \* project -> RunResults of the run of that project
    spawned,     \* log of the commands spawned by this invocation, in order, with their results
    entered,     \* log of the subprojects run by this invocation, in order
    fresh,       \* the (project, check, file) execute_per_file has skipped as fresh
    load_miss,   \* the projects whose verify.lock this invocation found missing or unusable
    prior,       \* the (project, per-file check, file) whose command succeeded in the
                 \* invocation that was interrupted just before, nothing edited since
    passed,      \* every (project, per-file check, file, config hash, file hash) the
                 \* command of a per-file check has ever succeeded on
    runs,        \* invocations the model still allows
    edits,       \* edits of files or configuration the model still allows
    save_pc,     \* position inside CacheState::save (SpecSave)
    save_old,    \* verify.lock as it was when the save of SpecSave started
    save_new,    \* the complete text the save of SpecSave is writing
    saves,       \* calls of save SpecSave still allows
    trailer,     \* the Verified trailer of the newest commit that has one: None or Some(map)
    report,      \* what the last status, trailer check or sync has reported
    seeded,      \* the names the last sync has written into a lock it found missing
    msg          \* the Verified trailers of the commit message file, in order

vars == <<config, files, lock, tmp, pc, exit_code, names, force, stack, cache,
          executed, results, spawned, entered, fresh, load_miss, prior, passed, runs, edits,
          save_pc, save_old, save_new, saves, trailer, report, seeded, msg>>

\* What belongs to one invocation and is gone when the process ends.
procVars == <<names, force, stack, cache, executed, results, spawned, entered, fresh,
              load_miss>>
saveVars == <<tmp, save_pc, save_old, save_new, saves>>
queryVars == <<trailer, report, seeded, msg>>

-----------------------------------------------------------------------------
(* Bounds of the model                                                     *)

MaxRuns == 2
MaxEdits == 1
MaxPerFileRuns == 3
MaxPerFileEdits == 2
MaxContent == 2
MaxStack == 8
MaxSaves == 2
MaxLoadRuns == 2
MaxLockWrites == 1
MaxOnceRuns == 1
MaxOrphanRuns == 2
MaxRemovals == 1
MaxQueryRuns == 2
MaxQueryEdits == 1
MaxSyncRuns == 2
MaxSyncEdits == 2
MaxSignRuns == 2
MaxUntrackedRuns == 2
MaxUntrackedEdits == 1
MaxCleanRuns == 2
MaxCleans == 1
MaxAttemptRuns == 2
MaxAttemptEdits == 1
MaxRerunRuns == 2
MaxRerunEdits == 1
MaxStaleRuns == 1
MaxStaleEdits == 1
MaxReadRuns == 1
MaxReadEdits == 2
MaxPairs == 2
MaxChanged == 2
MaxNodes == 3
MaxSignEdits == 1

-----------------------------------------------------------------------------
(* Option<T> and maps                                                      *)

None == <<>>
Some(x) == <<x>>
Unwrap(o) == o[1]

EmptyMap == <<>>
MapGet(m, k) == IF k \in DOMAIN m THEN Some(m[k]) ELSE None
MapInsert(m, k, v) == [x \in (DOMAIN m) \cup {k} |-> IF x = k THEN v ELSE m[x]]
MapRetain(m, keep) == [x \in (DOMAIN m) \cap keep |-> m[x]]

Range(s) == {s[i] : i \in DOMAIN s}
Front(s) == SubSeq(s, 1, Len(s) - 1)

-----------------------------------------------------------------------------
(* The file system: projects, paths, glob patterns                         *)

Projects == {"root", "sub", "deep"}
NoFile == 0
Contents == 1..MaxContent

\* Every path of the model, in lexicographic order (the order of a BTreeMap).
PathOrder == <<"x1", "x2", "y1", "z1">>
Paths == Range(PathOrder)

\* The paths a glob pattern can match.
glob(pattern) ==
    CASE pattern = "x*" -> {"x1", "x2"}
      [] pattern = "y*" -> {"y1"}
      [] pattern = "z*" -> {"z1"}
      [] OTHER -> {}

SortedPaths(S) == SelectSeq(PathOrder, LAMBDA p : p \in S)

hash_file(content) == <<"blake3", content>>

\* fs is the content of one project directory: path -> content.
compute_check_hash(fs, cache_paths) ==
    LET all_files == {p \in Paths : /\ fs[p] # NoFile
                                    /\ \E i \in DOMAIN cache_paths : p \in glob(cache_paths[i])}
        file_hashes == [p \in all_files |-> hash_file(fs[p])]
        sorted == SortedPaths(all_files)
    IN  [combined_hash |-> [i \in DOMAIN sorted |-> <<sorted[i], file_hashes[sorted[i]]>>],
         file_hashes |-> file_hashes]

\* "+ path", "M path" and "- path", sorted as strings ('+' < '-' < 'M').
find_changed_files(old_hashes, new_hashes) ==
    LET added == SelectSeq(PathOrder, LAMBDA p : p \in DOMAIN new_hashes /\ p \notin DOMAIN old_hashes)
        deleted == SelectSeq(PathOrder, LAMBDA p : p \in DOMAIN old_hashes /\ p \notin DOMAIN new_hashes)
        modified == SelectSeq(PathOrder, LAMBDA p : /\ p \in DOMAIN new_hashes
                                                    /\ p \in DOMAIN old_hashes
                                                    /\ old_hashes[p] # new_hashes[p])
    IN  [i \in DOMAIN added |-> <<"+", added[i]>>]
        \o [i \in DOMAIN deleted |-> <<"-", deleted[i]>>]
        \o [i \in DOMAIN modified |-> <<"M", modified[i]>>]

-----------------------------------------------------------------------------
(* Configuration (config.rs)                                               *)

Verification(name, command, cache_paths, depends_on, per_file) ==
    [kind |-> "verification", name |-> name, command |-> command,
     cache_paths |-> cache_paths, depends_on |-> depends_on,
     timeout_secs |-> None, metadata |-> EmptyMap, per_file |-> per_file, path |-> ""]

Subproject(name, path) ==
    [kind |-> "subproject", name |-> name, command |-> None,
     cache_paths |-> <<>>, depends_on |-> <<>>,
     timeout_secs |-> None, metadata |-> EmptyMap, per_file |-> FALSE, path |-> path]

\* The check with metadata patterns: key -> regex.
WithMetadata(v, patterns) == [v EXCEPT !.metadata = patterns]

PatternOrder == <<"x*", "y*", "z*">>
PatternRank(p) == CHOOSE i \in DOMAIN PatternOrder : PatternOrder[i] = p

\* The bytes fed to the hasher, field by field; BLAKE3 is taken as injective on them.
config_hash(v) ==
    <<"command:", v.command,
      "cache_paths:", SortSeq(v.cache_paths, LAMBDA a, b : PatternRank(a) < PatternRank(b)),
      "timeout:", v.timeout_secs,
      "per_file:", v.per_file,
      "metadata:", v.metadata>>

ItemNames(cfg) == {cfg[i].name : i \in DOMAIN cfg}

\* Config::get: the verification of that name, None for a subproject or an unknown name.
ConfigGet(cfg, name) ==
    IF \E i \in DOMAIN cfg : cfg[i].kind = "verification" /\ cfg[i].name = name
    THEN Some(cfg[CHOOSE i \in DOMAIN cfg : cfg[i].kind = "verification" /\ cfg[i].name = name])
    ELSE None

get_subproject(cfg, name) ==
    IF \E i \in DOMAIN cfg : cfg[i].kind = "subproject" /\ cfg[i].name = name
    THEN Some(cfg[CHOOSE i \in DOMAIN cfg : cfg[i].kind = "subproject" /\ cfg[i].name = name])
    ELSE None

\* Config::validate: unique names, known dependencies, no self-dependency, and
\* every subproject directory holds a config (the only one here is "sub").
validate(cfg) ==
    /\ \A i, j \in DOMAIN cfg : cfg[i].name = cfg[j].name => i = j
    /\ \A i \in DOMAIN cfg :
          cfg[i].kind = "verification" =>
             /\ Range(cfg[i].depends_on) \subseteq ItemNames(cfg)
             /\ cfg[i].name \notin Range(cfg[i].depends_on)
    /\ \A i \in DOMAIN cfg : cfg[i].kind = "subproject" => cfg[i].path \in Projects

-----------------------------------------------------------------------------
(* Lock store (cache.rs)                                                   *)

CACHE_VERSION == 4

CheckCache(config_hash_, content_hash, file_hashes, metadata) ==
    [config_hash |-> config_hash_, content_hash |-> content_hash,
     file_hashes |-> file_hashes, metadata |-> metadata]

Status(tag, reason, dependency, changed_files) ==
    [tag |-> tag, reason |-> reason, dependency |-> dependency, changed_files |-> changed_files]
Verified == Status("Verified", "", "", <<>>)
Untracked == Status("Untracked", "", "", <<>>)
NeverRun == Status("Unverified", "NeverRun", "", <<>>)
ConfigChanged == Status("Unverified", "ConfigChanged", "", <<>>)
FilesChanged(changed) == Status("Unverified", "FilesChanged", "", changed)
DependencyUnverified(dep) == Status("Unverified", "DependencyUnverified", dep, <<>>)

new == [version |-> CACHE_VERSION, checks |-> EmptyMap]

\* The text of a lock file is a prefix of the JSON of a store: the first `len`
\* chunks of the opening with the version, one chunk per entry, and the closing.
\* serde_json writes and reads back every field of the store.
FullLen(c) == Cardinality(DOMAIN c.checks) + 2
to_writer_pretty(c) == [text |-> c, len |-> FullLen(c), utf8 |-> TRUE]
Prefix(c, n) == [text |-> c, len |-> n, utf8 |-> TRUE]
\* A file whose bytes are not valid UTF-8.
NotText(c) == [text |-> c, len |-> FullLen(c), utf8 |-> FALSE]
\* fs::read_to_string: Some(content), or None for a file it cannot read.
read_to_string(content) == IF content.utf8 THEN Some(content) ELSE None
\* serde_json::from_str: Some(store), or None for a text that does not parse.
from_str(content) == IF content.len = FullLen(content.text) THEN Some(content.text) ELSE None

\* A load that trusts the version it finds.
load_any_version(l) ==
    IF l = None THEN new
    ELSE IF read_to_string(Unwrap(l)) = None THEN new
    ELSE IF from_str(Unwrap(l)) = None THEN new
    ELSE Unwrap(from_str(Unwrap(l)))

\* l is the lock file on disk: None when it does not exist.
load(l) ==
    IF l = None THEN new
    ELSE IF read_to_string(Unwrap(l)) = None THEN new
    ELSE IF from_str(Unwrap(l)) = None THEN new
    ELSE IF Unwrap(from_str(Unwrap(l))).version # CACHE_VERSION THEN new
    ELSE Unwrap(from_str(Unwrap(l)))

\* A lock file that is missing, cannot be read, does not parse or carries the
\* version of another engine.
Unusable(l) ==
    \/ l = None
    \/ ~Unwrap(l).utf8
    \/ Unwrap(l).len # FullLen(Unwrap(l).text)
    \/ Unwrap(l).text.version # CACHE_VERSION

\* A check_staleness that compares the content hash before the config hash.
check_staleness_content_first(c, check_name, current_content_hash, current_config_hash) ==
    IF check_name \notin DOMAIN c.checks THEN NeverRun
    ELSE LET e == c.checks[check_name] IN
         IF e.content_hash = None THEN NeverRun
         ELSE IF Unwrap(e.content_hash) # current_content_hash THEN FilesChanged(<<>>)
         ELSE IF e.config_hash = None THEN NeverRun
         ELSE IF Unwrap(e.config_hash) # current_config_hash THEN ConfigChanged
         ELSE Verified

check_staleness(c, check_name, current_content_hash, current_config_hash) ==
    IF check_name \notin DOMAIN c.checks THEN NeverRun
    ELSE LET e == c.checks[check_name] IN
         IF e.config_hash = None THEN NeverRun
         ELSE IF Unwrap(e.config_hash) # current_config_hash THEN ConfigChanged
         ELSE IF e.content_hash = None THEN NeverRun
         ELSE IF Unwrap(e.content_hash) = current_content_hash THEN Verified
         ELSE FilesChanged(<<>>)

update(c, check_name, success, config_hash_, content_hash, file_hashes, metadata, per_file) ==
    LET entry ==
            IF success
            THEN CheckCache(Some(config_hash_), content_hash,
                            IF per_file THEN file_hashes ELSE EmptyMap, metadata)
            ELSE CheckCache(Some(config_hash_), None,
                            IF per_file
                            THEN (IF check_name \in DOMAIN c.checks
                                  THEN c.checks[check_name].file_hashes ELSE EmptyMap)
                            ELSE EmptyMap,
                            EmptyMap)
    IN  [c EXCEPT !.checks = MapInsert(c.checks, check_name, entry)]

get(c, check_name) == MapGet(c.checks, check_name)

\* The store after get_or_create_mut: an existing entry is returned as it is.
get_or_create_mut(c, check_name, config_hash_) ==
    IF check_name \in DOMAIN c.checks THEN c
    ELSE [c EXCEPT !.checks = MapInsert(c.checks, check_name,
                                        CheckCache(Some(config_hash_), None, EmptyMap, EmptyMap))]

update_per_file_hash(c, check_name, config_hash_, file_path, file_hash) ==
    LET c1 == get_or_create_mut(c, check_name, config_hash_)
    IN  [c1 EXCEPT !.checks[check_name].file_hashes = MapInsert(@, file_path, file_hash)]

finalize_per_file(c, check_name, config_hash_, combined_hash, file_hashes, metadata) ==
    LET c1 == get_or_create_mut(c, check_name, config_hash_)
    IN  [c1 EXCEPT !.checks[check_name] =
            CheckCache(Some(config_hash_), Some(combined_hash), file_hashes, metadata)]

mark_per_file_failed(c, check_name, config_hash_) ==
    LET c1 == get_or_create_mut(c, check_name, config_hash_)
    IN  [c1 EXCEPT !.checks[check_name].config_hash = Some(config_hash_),
                   !.checks[check_name].content_hash = None]

\* CacheState::clear: every entry, or the entries of the names given.
clear(c, nm) ==
    IF nm = <<>> THEN [c EXCEPT !.checks = EmptyMap]
    ELSE [c EXCEPT !.checks = MapRetain(c.checks, DOMAIN c.checks \ Range(nm))]

\* A cleanup that keeps every entry.
cleanup_nothing(c, valid_check_names) == c

cleanup_orphaned(c, valid_check_names) ==
    [c EXCEPT !.checks = MapRetain(c.checks, valid_check_names)]

-----------------------------------------------------------------------------
(* Decision engine (runner.rs)                                             *)

\* extract_metadata: one value per pattern; the output of a command of the
\* model carries a match for every pattern.
extract_metadata(output, patterns) == [key \in DOMAIN patterns |-> <<output, patterns[key]>>]

\* A decision that looks at the cache paths before the dependencies.
compute_status_paths_first(check, hash_result, c, dep_staleness) ==
    LET stale(dep) == IF dep \in DOMAIN dep_staleness THEN dep_staleness[dep] ELSE TRUE
        staleDeps == SelectSeq(check.depends_on, stale)
    IN  IF check.command # None /\ check.cache_paths = <<>> THEN Untracked
        ELSE IF staleDeps # <<>> THEN DependencyUnverified(staleDeps[1])
        ELSE IF check.command = None THEN Verified
        ELSE LET status == check_staleness(c, check.name, hash_result.combined_hash,
                                           config_hash(check))
             IN  IF status.reason = "FilesChanged" /\ check.name \in DOMAIN c.checks
                 THEN FilesChanged(find_changed_files(c.checks[check.name].file_hashes,
                                                      hash_result.file_hashes))
                 ELSE status

\* A decision that takes the lock entry of a check without cache paths as
\* it takes that of a tracked check.
compute_status_by_entry(check, hash_result, c, dep_staleness) ==
    LET stale(dep) == IF dep \in DOMAIN dep_staleness THEN dep_staleness[dep] ELSE TRUE
        staleDeps == SelectSeq(check.depends_on, stale)
    IN  IF staleDeps # <<>> THEN DependencyUnverified(staleDeps[1])
        ELSE IF check.command = None THEN Verified
        ELSE check_staleness(c, check.name, hash_result.combined_hash, config_hash(check))

\* dep_staleness: name -> stale?; a name that is not in it counts as stale.
compute_status(check, hash_result, c, dep_staleness) ==
    LET stale(dep) == IF dep \in DOMAIN dep_staleness THEN dep_staleness[dep] ELSE TRUE
        staleDeps == SelectSeq(check.depends_on, stale)
    IN  IF staleDeps # <<>> THEN DependencyUnverified(staleDeps[1])
        ELSE IF check.command = None THEN Verified
        ELSE IF check.cache_paths = <<>> THEN Untracked
        ELSE LET status == check_staleness(c, check.name, hash_result.combined_hash,
                                           config_hash(check))
             IN  IF status.reason = "FilesChanged" /\ check.name \in DOMAIN c.checks
                 THEN FilesChanged(find_changed_files(c.checks[check.name].file_hashes,
                                                      hash_result.file_hashes))
                 ELSE status

get_stale_files_from_cache(cached_file_hashes, current_hashes) ==
    SelectSeq(PathOrder,
              LAMBDA p : /\ p \in DOMAIN current_hashes.file_hashes
                         /\ \/ p \notin DOMAIN cached_file_hashes
                            \/ cached_file_hashes[p] # current_hashes.file_hashes[p])

-----------------------------------------------------------------------------
(* Results collector (output.rs)                                           *)

-----------------------------------------------------------------------------
(* Dependency graph (graph.rs)                                             *)

verifications_only(cfg) == SelectSeq(cfg, LAMBDA item : item.kind = "verification")
subprojects(cfg) == SelectSeq(cfg, LAMBDA item : item.kind = "subproject")

\* The nodes of the graph are the verifications; an edge runs from each
\* dependency that is a node to its dependent.
GraphDeps(cfg, v) ==
    Range(v.depends_on) \cap {w.name : w \in Range(verifications_only(cfg))}

RECURSIVE GraphReach(_, _, _)
GraphReach(cfg, from, n) ==
    IF n = 0 THEN from
    ELSE GraphReach(cfg,
                    from \cup UNION {GraphDeps(cfg, w) :
                                        w \in {x \in Range(verifications_only(cfg)) : x.name \in from}},
                    n - 1)

\* toposort fails: some verification reaches itself.
validate_no_cycles(cfg) ==
    \A v \in Range(verifications_only(cfg)) :
        v.name \notin GraphReach(cfg, GraphDeps(cfg, v), Len(cfg))

\* The waves after `completed`: each wave holds, in node order, the nodes not
\* yet completed whose dependencies all are.
\* Waves of one node each, in a topological order.
RECURSIVE SerialFrom(_, _)
SerialFrom(cfg, completed) ==
    LET ready == SelectSeq(verifications_only(cfg),
                           LAMBDA v : v.name \notin completed /\ GraphDeps(cfg, v) \subseteq completed)
    IN  IF ready = <<>> THEN <<>>
        ELSE <<<<ready[1].name>>>> \o SerialFrom(cfg, completed \cup {ready[1].name})
execution_waves_serial(cfg) == SerialFrom(cfg, {})

RECURSIVE WavesFrom(_, _)
WavesFrom(cfg, completed) ==
    LET ready == SelectSeq(verifications_only(cfg),
                           LAMBDA v : v.name \notin completed /\ GraphDeps(cfg, v) \subseteq completed)
        wave == [i \in DOMAIN ready |-> ready[i].name]
    IN  IF wave = <<>> THEN <<>>
        ELSE <<wave>> \o WavesFrom(cfg, completed \cup Range(wave))

execution_waves(cfg) == WavesFrom(cfg, {})

RECURSIVE Flatten(_)
Flatten(waves) == IF waves = <<>> THEN <<>> ELSE Head(waves) \o Flatten(Tail(waves))

\* for wave in waves { for name in wave { ... } }
WaveOrder(cfg) == Flatten(execution_waves(cfg))

NoResults == [passed |-> 0, failed |-> 0, skipped |-> 0, results |-> <<>>]

add_pass(r, name) ==
    [r EXCEPT !.passed = @ + 1, !.results = Append(@, [name |-> name, result |-> "pass"])]
add_skipped(r, name) ==
    [r EXCEPT !.skipped = @ + 1, !.results = Append(@, [name |-> name, result |-> "skipped"])]
add_fail(r, name) ==
    [r EXCEPT !.failed = @ + 1, !.results = Append(@, [name |-> name, result |-> "fail"])]
add_subproject(r, name, sub_results) ==
    [r EXCEPT !.passed = @ + sub_results.passed,
              !.failed = @ + sub_results.failed,
              !.skipped = @ + sub_results.skipped,
              !.results = Append(@, [name |-> name, result |-> "subproject"])]

-----------------------------------------------------------------------------
(* The configurations of the model                                         *)

Cmd1 == Some("cmd1")
Cmd2 == Some("cmd2")

\* The verify.yaml of the subproject directory: one tracked check.
SubConfig == <<Verification("u", Cmd1, <<"z*">>, <<>>, FALSE)>>

\* A per-file check over two files.
PerFileConfig ==
    <<Verification("p", Cmd1, <<"x*">>, <<>>, TRUE)>>

\* A diamond declared dependents first: d needs b and c, both need a.
DiamondConfig ==
    <<Verification("d", Cmd1, <<"y*">>, <<"b", "c">>, FALSE),
      Verification("b", Cmd1, <<>>, <<"a">>, FALSE),
      Verification("c", None, <<>>, <<"a">>, FALSE),
      Verification("a", Cmd1, <<"y*">>, <<>>, FALSE)>>

\* A subproject two checks depend on, declared between them.
SubprojectConfig ==
    <<Verification("e", Cmd1, <<"y*">>, <<"s">>, TRUE),
      Subproject("s", "sub"),
      Verification("f", Cmd1, <<>>, <<"s", "e">>, FALSE)>>

\* A cycle through b and c behind a check that is not on it; validate accepts it.
CycleConfig ==
    <<Verification("a", Cmd1, <<>>, <<>>, FALSE),
      Verification("b", Cmd1, <<>>, <<"c">>, FALSE),
      Verification("c", Cmd1, <<>>, <<"b">>, FALSE)>>

RootConfigs == {DiamondConfig, SubprojectConfig, CycleConfig}

\* A dependency on a name the config does not declare; validate rejects it.
UnknownDepConfig ==
    <<Verification("a", Cmd1, <<"y*">>, <<"nope">>, FALSE)>>

\* Two checks around one that neither depends on: y is declared before z,
\* which x needs.
OrderConfig ==
    <<Verification("x", Cmd1, <<>>, <<"z">>, FALSE),
      Verification("y", Cmd1, <<>>, <<>>, FALSE),
      Verification("z", Cmd1, <<>>, <<>>, FALSE)>>

\* Aggregates over a dependency of every kind, a check that depends on a
\* subproject, and a subproject inside the subproject.
QueryConfig ==
    <<Verification("t", Cmd1, <<"y*">>, <<>>, FALSE),
      Verification("k", Cmd1, <<>>, <<>>, FALSE),
      Subproject("s", "sub"),
      Verification("g1", None, <<>>, <<"t">>, FALSE),
      Verification("g2", None, <<>>, <<"k">>, FALSE),
      Verification("g3", None, <<>>, <<"s">>, FALSE),
      Verification("g4", None, <<>>, <<"g1">>, FALSE),
      Verification("w", Cmd1, <<"x*">>, <<"s">>, FALSE)>>
NestingSubConfig ==
    <<Verification("u", Cmd1, <<"z*">>, <<>>, FALSE),
      Subproject("r", "deep")>>
DeepConfig == <<Verification("v", Cmd1, <<"y*">>, <<>>, FALSE)>>

\* The patterns of a check that reports a number.
Patterns == [key \in {"count"} |-> "(\\d+) tests"]

\* An untracked check with a tracked and an aggregate dependent, an
\* independent tracked check, and a subproject that holds an untracked check.
StaleConfig ==
    <<Verification("k", Cmd1, <<>>, <<>>, FALSE),
      Verification("d", Cmd1, <<"x*">>, <<"k">>, FALSE),
      Verification("g", None, <<>>, <<"k">>, FALSE),
      Subproject("s", "sub"),
      Verification("t", Cmd1, <<"y*">>, <<>>, FALSE)>>
StaleSubConfig ==
    <<Verification("u", Cmd1, <<"z*">>, <<>>, FALSE),
      Verification("j", Cmd2, <<>>, <<>>, FALSE)>>

\* A tracked check and a subproject.
ReadConfig ==
    <<Verification("t", Cmd1, <<"y*">>, <<>>, FALSE),
      Subproject("s", "sub")>>

\* A tracked check that depends on another tracked check.
RerunConfig ==
    <<Verification("w", Cmd1, <<"x*">>, <<"t">>, FALSE),
      Verification("t", Cmd1, <<"y*">>, <<>>, FALSE)>>

\* A per-file check and an ordinary check, both with metadata patterns.
AttemptConfig ==
    <<WithMetadata(Verification("p", Cmd1, <<"x*">>, <<>>, TRUE), Patterns),
      WithMetadata(Verification("o", Cmd1, <<"y*">>, <<>>, FALSE), Patterns)>>

\* Two tracked checks, one depending on the other and with metadata, and an
\* aggregate.
SyncConfig ==
    <<Verification("t", Cmd1, <<"y*">>, <<>>, FALSE),
      WithMetadata(Verification("w", Cmd1, <<"x*">>, <<"t">>, FALSE), Patterns),
      Verification("g", None, <<>>, <<"t">>, FALSE)>>

\* A tracked check, a check without cache paths that depends on it, and one
\* without cache paths and without dependencies.
UntrackedConfig ==
    <<Verification("a", Cmd1, <<"y*">>, <<>>, FALSE),
      Verification("b", Cmd1, <<>>, <<"a">>, FALSE),
      Verification("k", Cmd2, <<>>, <<>>, FALSE)>>

\* A name no config declares, requested on the command line.
UnknownName == "nope"

-----------------------------------------------------------------------------
(* The call stack of an invocation                                         *)

\* One activation of a function of runner.rs.  d counts the dependencies (or
\* items, or stale files) already handled; nm is the `names` argument.
Frame(fn, proj, name, nm) ==
    [fn |-> fn, proj |-> proj, name |-> name, nm |-> nm,
     d |-> 0, stage |-> "start", stale |-> <<>>, failed |-> <<>>]

Top == stack[Len(stack)]
SetTop(f) == [stack EXCEPT ![Len(stack)] = f]
Call(f, g) == Append(SetTop(f), g)
Return == Front(stack)
At(fn) == pc = "running" /\ stack # <<>> /\ Top.fn = fn

Item(cfg, name) == cfg[CHOOSE i \in DOMAIN cfg : cfg[i].name = name]

Spawn(proj, name, file) ==
    Append(spawned, [proj |-> proj, name |-> name, file |-> file, result |-> "running"])
Finish(success) ==
    [spawned EXCEPT ![Len(spawned)].result = IF success THEN "ok" ELSE "fail"]

\* A save that writes nothing.
save_skipped(c, proj) == lock

\* CacheState::save as one step: verify.lock is replaced by the text of the
\* whole store (SpecSave takes the steps of save one by one).
save(c, proj) == [lock EXCEPT ![proj] = Some(to_writer_pretty(c))]

\* A runner that keeps no memory of what it has executed.
never_executed(ex, name) == FALSE

\* executed.contains_key(name)
already_executed(ex, name) == name \in DOMAIN ex

-----------------------------------------------------------------------------
(* Initial state: a fresh checkout, nothing run yet                        *)

\* Nothing has been queried yet.
NoReport == [cmd |-> "none"]

InitFiles ==
    [p \in Projects |->
        [f \in Paths |-> IF \/ p = "root" /\ f \in {"x1", "x2", "y1"}
                            \/ p = "sub" /\ f = "z1"
                            \/ p = "deep" /\ f = "y1"
                         THEN 1 ELSE NoFile]]

InitProc ==
    /\ names = <<>>
    /\ force = FALSE
    /\ stack = <<>>
    /\ cache = [p \in Projects |-> new]
    /\ executed = [p \in Projects |-> EmptyMap]
    /\ results = [p \in Projects |-> NoResults]
    /\ spawned = <<>>
    /\ entered = <<>>
    /\ fresh = {}
    /\ load_miss = {}

\* The process has ended and its memory is gone.
ProcessGone ==
    /\ names' = <<>>
    /\ force' = FALSE
    /\ stack' = <<>>
    /\ cache' = [p \in Projects |-> new]
    /\ executed' = [p \in Projects |-> EmptyMap]
    /\ results' = [p \in Projects |-> NoResults]
    /\ spawned' = <<>>
    /\ entered' = <<>>
    /\ fresh' = {}
    /\ load_miss' = {}

InitDiskOf(configs) ==
    /\ config = configs
    /\ files = InitFiles
    /\ lock = [p \in Projects |-> None]
    /\ tmp = [p \in Projects |-> None]
    /\ pc = "idle"
    /\ exit_code = -1
    /\ InitProc
    /\ prior = {}
    /\ passed = {}
    /\ trailer = None
    /\ report = NoReport
    /\ seeded = {}
    /\ msg = <<>>
    /\ save_pc = "none"
    /\ save_old = None
    /\ save_new = None

InitDisk(root) ==
    InitDiskOf([p \in Projects |-> IF p = "root" THEN root
                                  ELSE IF p = "sub" THEN SubConfig ELSE <<>>])

Init ==
    /\ \E root \in RootConfigs : InitDisk(root)
    /\ runs = MaxRuns
    /\ edits = MaxEdits
    /\ saves = 0

InitPerFile ==
    /\ InitDisk(PerFileConfig)
    /\ runs = MaxPerFileRuns
    /\ edits = MaxPerFileEdits
    /\ saves = 0

InitLoad ==
    /\ \E root \in RootConfigs : InitDisk(root)
    /\ runs = MaxLoadRuns
    /\ edits = MaxLockWrites
    /\ saves = 0

InitOnce ==
    /\ \E root \in RootConfigs \cup {UnknownDepConfig, OrderConfig} : InitDisk(root)
    /\ runs = MaxOnceRuns
    /\ edits = 0
    /\ saves = 0

InitOrphan ==
    /\ \E root \in RootConfigs : InitDisk(root)
    /\ runs = MaxOrphanRuns
    /\ edits = MaxRemovals
    /\ saves = 0

InitQuery ==
    /\ InitDiskOf([p \in Projects |-> IF p = "root" THEN QueryConfig
                                      ELSE IF p = "sub" THEN NestingSubConfig ELSE DeepConfig])
    /\ runs = MaxQueryRuns
    /\ edits = MaxQueryEdits
    /\ saves = 0

InitSync ==
    /\ InitDisk(SyncConfig)
    /\ runs = MaxSyncRuns
    /\ edits = MaxSyncEdits
    /\ saves = 0

InitSign ==
    /\ InitDisk(SyncConfig)
    /\ runs = MaxSignRuns
    /\ edits = MaxSignEdits
    /\ saves = 0

InitUntracked ==
    /\ InitDisk(UntrackedConfig)
    /\ runs = MaxUntrackedRuns
    /\ edits = MaxUntrackedEdits
    /\ saves = 0

InitClean ==
    /\ InitDiskOf([p \in Projects |-> IF p = "root" THEN QueryConfig
                                      ELSE IF p = "sub" THEN NestingSubConfig ELSE DeepConfig])
    /\ runs = MaxCleanRuns
    /\ edits = MaxCleans
    /\ saves = 0

\* The checks compute_status is asked about: with or without a command,
\* cache paths and dependencies.
StatusChecks ==
    {Verification("c", command, cache_paths, depends_on, FALSE) :
        command \in {None, Cmd1},
        cache_paths \in {<<>>, <<"x*">>},
        depends_on \in {<<>>, <<"d1">>, <<"d1", "d2">>, <<"d2", "d1">>}}

\* The staleness maps: of no, one or both dependencies.
StalenessMaps == UNION {[D -> BOOLEAN] : D \in SUBSET {"d1", "d2"}}

\* The lock stores: without the entry of the check, or with one that is
\* verified, that saw other files, that saw another config, or that failed.
StatusStores(check) ==
    LET now == compute_check_hash(InitFiles["root"], check.cache_paths)
        then == compute_check_hash([InitFiles["root"] EXCEPT !["x1"] = 2], check.cache_paths)
        with(e) == [new EXCEPT !.checks = MapInsert(EmptyMap, check.name, e)]
    IN  {new,
         with(CheckCache(Some(config_hash(check)), Some(now.combined_hash), EmptyMap, EmptyMap)),
         with(CheckCache(Some(config_hash(check)), Some(then.combined_hash),
                         then.file_hashes, EmptyMap)),
         with(CheckCache(Some(<<"other">>), Some(now.combined_hash), EmptyMap, EmptyMap)),
         with(CheckCache(Some(config_hash(check)), None, EmptyMap, EmptyMap))}

\* The inputs of one call of compute_status: the check is the config, the
\* store is in memory, `executed` is the staleness map.
InitStatus ==
    /\ \E check \in StatusChecks :
          /\ config = [p \in Projects |-> IF p = "root" THEN <<check>> ELSE <<>>]
          /\ \E c \in StatusStores(check) : cache = [p \in Projects |-> IF p = "root" THEN c ELSE new]
    /\ \E dep_staleness \in StalenessMaps :
          executed = [p \in Projects |-> IF p = "root" THEN dep_staleness ELSE EmptyMap]
    /\ files = InitFiles
    /\ lock = [p \in Projects |-> None]
    /\ tmp = [p \in Projects |-> None]
    /\ pc = "idle"
    /\ exit_code = -1
    /\ names = <<>>
    /\ force = FALSE
    /\ stack = <<>>
    /\ results = [p \in Projects |-> NoResults]
    /\ spawned = <<>>
    /\ entered = <<>>
    /\ fresh = {}
    /\ load_miss = {}
    /\ prior = {}
    /\ passed = {}
    /\ trailer = None
    /\ report = NoReport
    /\ seeded = {}
    /\ msg = <<>>
    /\ save_pc = "none"
    /\ save_old = None
    /\ save_new = None
    /\ runs = 0
    /\ edits = 0
    /\ saves = 0

InitRerun ==
    /\ InitDisk(RerunConfig)
    /\ runs = MaxRerunRuns
    /\ edits = MaxRerunEdits
    /\ saves = 0

InitStale ==
    /\ InitDiskOf([p \in Projects |-> IF p = "root" THEN StaleConfig
                                      ELSE IF p = "sub" THEN StaleSubConfig ELSE <<>>])
    /\ runs = MaxStaleRuns
    /\ edits = MaxStaleEdits
    /\ saves = 0

InitRead ==
    /\ InitDisk(ReadConfig)
    /\ runs = MaxReadRuns
    /\ edits = MaxReadEdits
    /\ saves = 0

InitAttempt ==
    /\ InitDisk(AttemptConfig)
    /\ runs = MaxAttemptRuns
    /\ edits = MaxAttemptEdits
    /\ saves = 0

\* The config hashes and content hashes the store is updated with and asked
\* about.
ConfigHashes ==
    {config_hash(Verification("c", command, <<"x*">>, <<>>, per_file)) :
        command \in {Cmd1, Cmd2}, per_file \in BOOLEAN}
ContentHashes ==
    {compute_check_hash([InitFiles["root"] EXCEPT !["x1"] = content], <<"x*">>).combined_hash :
        content \in Contents \cup {NoFile}}

\* The stores update is called on: without the entry, with a verified one,
\* with a failed one.
PriorStores ==
    LET with(e) == [new EXCEPT !.checks = MapInsert(EmptyMap, "c", e)]
    IN  {new} \cup
        {with(CheckCache(Some(k), h, EmptyMap, EmptyMap)) :
            k \in ConfigHashes, h \in {None} \cup {Some(x) : x \in ContentHashes}}

\* A store in memory, nothing on disk, no invocation.
InitStore ==
    /\ \E c \in PriorStores : cache = [p \in Projects |-> IF p = "root" THEN c ELSE new]
    /\ config = [p \in Projects |-> <<>>]
    /\ executed = [p \in Projects |-> EmptyMap]
    /\ files = InitFiles
    /\ lock = [p \in Projects |-> None]
    /\ tmp = [p \in Projects |-> None]
    /\ pc = "idle"
    /\ exit_code = -1
    /\ names = <<>>
    /\ force = FALSE
    /\ stack = <<>>
    /\ results = [p \in Projects |-> NoResults]
    /\ spawned = <<>>
    /\ entered = <<>>
    /\ fresh = {}
    /\ load_miss = {}
    /\ prior = {}
    /\ passed = {}
    /\ trailer = None
    /\ report = NoReport
    /\ seeded = {}
    /\ msg = <<>>
    /\ save_pc = "none"
    /\ save_old = None
    /\ save_new = None
    /\ runs = 0
    /\ edits = 0
    /\ saves = 0

InitSave ==
    /\ InitDisk(PerFileConfig)
    /\ runs = 0
    /\ edits = 0
    /\ saves = MaxSaves

-----------------------------------------------------------------------------
(* The user, between invocations                                           *)

TrackedPaths(proj) ==
    {f \in Paths : \E i \in DOMAIN config[proj] :
                      \E j \in DOMAIN config[proj][i].cache_paths :
                          f \in glob(config[proj][i].cache_paths[j])}

\* Write, create or delete one tracked file.
EditFile(proj, f, content) ==
    /\ pc # "running"
    /\ edits > 0
    /\ runs > 0
    /\ f \in TrackedPaths(proj)
    /\ files[proj][f] # content
    /\ files' = [files EXCEPT ![proj][f] = content]
    /\ edits' = edits - 1
    /\ pc' = "idle"
    /\ prior' = {}
    /\ exit_code' = -1
    /\ ProcessGone
    /\ UNCHANGED <<queryVars, config, lock, passed, runs, saveVars>>

\* Change the command of one tracked check of the root verify.yaml.
EditConfig(i) ==
    /\ pc # "running"
    /\ edits > 0
    /\ runs > 0
    /\ config["root"][i].kind = "verification"
    /\ config["root"][i].command # None
    /\ config["root"][i].cache_paths # <<>>
    /\ config' = [config EXCEPT !["root"][i].command = IF @ = Cmd1 THEN Cmd2 ELSE Cmd1]
    /\ edits' = edits - 1
    /\ pc' = "idle"
    /\ prior' = {}
    /\ exit_code' = -1
    /\ ProcessGone
    /\ UNCHANGED <<queryVars, files, lock, passed, runs, saveVars>>

\* Delete one item from the verify.yaml of a project.
RemoveItem(proj, i) ==
    /\ pc # "running"
    /\ edits > 0
    /\ runs > 0
    /\ i \in DOMAIN config[proj]
    /\ config' = [config EXCEPT ![proj] = SubSeq(@, 1, i - 1) \o SubSeq(@, i + 1, Len(@))]
    /\ edits' = edits - 1
    /\ pc' = "idle"
    /\ prior' = {}
    /\ exit_code' = -1
    /\ ProcessGone
    /\ UNCHANGED <<queryVars, files, lock, passed, runs, saveVars>>

\* What can take the place of a usable verify.lock: the same entries written
\* by an engine of another version, a text cut short, bytes that are no text.
OtherVersion == CACHE_VERSION - 1
LockDamage(l) ==
    {Some(to_writer_pretty([load(l) EXCEPT !.version = OtherVersion])),
     Some(Prefix(load(l), 1)),
     Some(NotText(load(l))),
     None}

\* Something other than this engine writes or deletes verify.lock.
WriteLock(proj, content) ==
    /\ pc # "running"
    /\ edits > 0
    /\ runs > 0
    /\ content \in LockDamage(lock[proj])
    /\ content # lock[proj]
    /\ lock' = [lock EXCEPT ![proj] = content]
    /\ edits' = edits - 1
    /\ pc' = "idle"
    /\ prior' = {}
    /\ exit_code' = -1
    /\ ProcessGone
    /\ UNCHANGED <<queryVars, config, files, passed, runs, saveVars>>

\* verify clean [names]: clean_cache on the project root.
Clean(nm) ==
    /\ pc # "running"
    /\ edits > 0
    /\ edits' = edits - 1
    /\ lock' = save(clear(load(lock["root"]), nm), "root")
    /\ pc' = "idle"
    /\ exit_code' = 0
    /\ prior' = {}
    /\ ProcessGone
    /\ UNCHANGED <<queryVars, config, files, passed, runs, saveVars>>

-----------------------------------------------------------------------------
(* verify run (main.rs, runner.rs)                                         *)

\* main: load and validate the config, load the lock, reject the names that
\* are not checks (exit code 2), call run_checks.
StartRun(nm, f) ==
    /\ pc # "running"
    /\ runs > 0
    /\ runs' = runs - 1
    /\ names' = nm
    /\ force' = f
    /\ executed' = [p \in Projects |-> EmptyMap]
    /\ results' = [p \in Projects |-> NoResults]
    /\ spawned' = <<>>
    /\ entered' = <<>>
    /\ fresh' = {}
    /\ cache' = [p \in Projects |-> IF p = "root" THEN load(lock[p]) ELSE new]
    /\ load_miss' = IF Unusable(lock["root"]) THEN {"root"} ELSE {}
    /\ IF \/ ~validate(config["root"])
          \/ \E i \in DOMAIN nm : ConfigGet(config["root"], nm[i]) = None
       THEN /\ pc' = "exited"
            /\ exit_code' = 2
            /\ stack' = <<>>
            /\ prior' = {}
       ELSE /\ pc' = "running"
            /\ exit_code' = -1
            /\ stack' = <<Frame("run_checks_recursive", "root", "", nm)>>
            /\ prior' = IF pc = "interrupted" THEN prior ELSE {}
    /\ UNCHANGED <<queryVars, config, files, lock, passed, edits, saveVars>>

\* SIGINT: the process is gone, the disk stays as it is.
Interrupt ==
    /\ pc = "running"
    /\ pc' = "interrupted"
    /\ prior' = {<<spawned[i].proj, spawned[i].name, spawned[i].file>> :
                    i \in {j \in DOMAIN spawned : spawned[j].result = "ok" /\ spawned[j].file # ""}}
    /\ ProcessGone
    /\ UNCHANGED <<queryVars, config, files, lock, exit_code, passed, runs, edits, saveVars>>

\* A loop that takes the items from the last declared to the first.
last_item_first(cfg, d) == cfg[Len(cfg) - d]

\* for item in &config.verifications: the item after d handled ones.
next_item(cfg, d) == cfg[d + 1]

\* The loop of run_checks_recursive over the items in declaration order.
run_checks_recursive ==
    /\ At("run_checks_recursive")
    /\ LET f == Top
           cfg == config[f.proj]
       IN  stack' = IF f.d < Len(cfg)
                    THEN Call([f EXCEPT !.d = f.d + 1],
                              Frame("execute_item_with_deps", f.proj, next_item(cfg, f.d).name, f.nm))
                    ELSE Return
    /\ UNCHANGED <<queryVars, config, files, lock, pc, exit_code, names, force, cache, executed,
                   results, spawned, entered, load_miss, fresh, prior, passed, runs, edits, saveVars>>

\* The end of run_checks: orphan cleanup, save, exit code.
run_checks ==
    /\ pc = "running"
    /\ stack = <<>>
    /\ LET c == cleanup_orphaned(cache["root"], ItemNames(config["root"]))
       IN  /\ cache' = [cache EXCEPT !["root"] = c]
           /\ lock' = save(c, "root")
    /\ exit_code' = IF results["root"].failed > 0 THEN 1 ELSE 0
    /\ pc' = "exited"
    /\ prior' = {}
    /\ UNCHANGED <<queryVars, config, files, names, force, stack, executed, results, spawned,
                   entered, load_miss, fresh, passed, runs, edits, saveVars>>

\* A filter that lets every item through.
filter_ignored(nm, name) == FALSE

\* !names.is_empty() && !names.contains(&item_name)
not_requested(nm, name) == nm # <<>> /\ name \notin Range(nm)

execute_item_with_deps ==
    /\ At("execute_item_with_deps")
    /\ LET f == Top
           item == Item(config[f.proj], f.name)
           skip == /\ f.stage = "start"
                   /\ \/ already_executed(executed[f.proj], f.name)
                      \/ not_requested(f.nm, f.name)
       IN  stack' =
             IF skip THEN Return
             ELSE IF item.kind = "verification" /\ f.d < Len(item.depends_on)
             THEN Call([f EXCEPT !.d = f.d + 1, !.stage = "deps"],
                       Frame("resolve_and_execute_dep", f.proj, item.depends_on[f.d + 1], <<>>))
             ELSE IF item.kind = "verification"
             THEN SetTop(Frame("execute_verification", f.proj, f.name, <<>>))
             ELSE IF ~already_executed(executed[f.proj], f.name)
             THEN SetTop(Frame("run_checks_subproject", f.proj, f.name, f.nm))
             ELSE Return
    /\ UNCHANGED <<queryVars, config, files, lock, pc, exit_code, names, force, cache, executed,
                   results, spawned, entered, load_miss, fresh, prior, passed, runs, edits, saveVars>>

\* A resolver that executes a dependency without resolving its own first.
transitive_deps_none(dep_v) == <<>>

\* The dependencies resolve_and_execute_dep resolves before the dependency.
transitive_deps(dep_v) == dep_v.depends_on

\* A call that finds MaxStack frames below it overflows the stack of the
\* process, which aborts.
resolve_and_execute_dep ==
    /\ At("resolve_and_execute_dep")
    /\ LET f == Top
           cfg == config[f.proj]
           dep_v == ConfigGet(cfg, f.name)
       IN  IF f.stage = "start" /\ already_executed(executed[f.proj], f.name)
           THEN stack' = Return /\ pc' = pc
           ELSE IF get_subproject(cfg, f.name) # None
           THEN stack' = SetTop(Frame("run_checks_subproject", f.proj, f.name, <<>>)) /\ pc' = pc
           ELSE IF dep_v # None /\ f.d < Len(transitive_deps(Unwrap(dep_v)))
           THEN IF Len(stack) >= MaxStack
                THEN stack' = <<>> /\ pc' = "aborted"
                ELSE /\ stack' = Call([f EXCEPT !.d = f.d + 1, !.stage = "deps"],
                                      Frame("resolve_and_execute_dep", f.proj,
                                            transitive_deps(Unwrap(dep_v))[f.d + 1], <<>>))
                     /\ pc' = pc
           ELSE IF dep_v # None
           THEN stack' = SetTop(Frame("execute_verification", f.proj, f.name, <<>>)) /\ pc' = pc
           ELSE stack' = Return /\ pc' = pc
    /\ prior' = IF pc' = "aborted" THEN {} ELSE prior
    /\ UNCHANGED <<queryVars, config, files, lock, exit_code, names, force, cache, executed,
                   results, spawned, entered, load_miss, fresh, passed, runs, edits, saveVars>>

\* execute_verification up to the point where the command is spawned.
execute_verification ==
    /\ At("execute_verification")
    /\ Top.stage = "start"
    /\ LET f == Top
           check == Unwrap(ConfigGet(config[f.proj], f.name))
           ex == executed[f.proj]
           had_failure(dep) == IF dep \in DOMAIN ex THEN ex[dep] ELSE FALSE
           failed_deps == SelectSeq(check.depends_on, had_failure)
           dep_failed == failed_deps # <<>>
           hash_result == compute_check_hash(files[f.proj], check.cache_paths)
           status == IF dep_failed
                     THEN DependencyUnverified(failed_deps[1])
                     ELSE compute_status(check, hash_result, cache[f.proj], ex)
           should_run == force \/ status.tag # "Verified"
           record(res, had) ==
               /\ results' = [results EXCEPT ![f.proj] = res]
               /\ executed' = [executed EXCEPT ![f.proj] = MapInsert(ex, f.name, had)]
               /\ stack' = Return
               /\ spawned' = spawned
       IN  IF already_executed(ex, f.name)
           THEN stack' = Return /\ UNCHANGED <<results, executed, spawned>>
           ELSE IF check.command = None
           THEN IF dep_failed
                THEN record(add_fail(results[f.proj], f.name), TRUE)
                ELSE record(add_skipped(results[f.proj], f.name), FALSE)
           ELSE IF ~should_run
           THEN record(add_skipped(results[f.proj], f.name), FALSE)
           ELSE IF check.per_file
           THEN /\ stack' = SetTop(Frame("execute_per_file", f.proj, f.name, <<>>))
                /\ UNCHANGED <<results, executed, spawned>>
           ELSE /\ stack' = SetTop([f EXCEPT !.stage = "command"])
                /\ spawned' = Spawn(f.proj, f.name, "")
                /\ UNCHANGED <<results, executed>>
    /\ UNCHANGED <<queryVars, config, files, lock, pc, exit_code, names, force, cache,
                   entered, load_miss, fresh, prior, passed, runs, edits, saveVars>>

\* A command that always leaves its check stale for the dependents.
stale_after_any(success) == TRUE

\* executed.insert(name, !success): the check is stale for its dependents iff
\* its command failed.
stale_after(success) == ~success

\* The command of an ordinary check returns: update the store, record the
\* result, save.
execute_command(success) ==
    /\ At("execute_verification")
    /\ Top.stage = "command"
    /\ LET f == Top
           check == Unwrap(ConfigGet(config[f.proj], f.name))
           hash_result == compute_check_hash(files[f.proj], check.cache_paths)
           metadata == IF success /\ check.metadata # EmptyMap
                       THEN extract_metadata(Unwrap(check.command), check.metadata)
                       ELSE EmptyMap
           c == update(cache[f.proj], f.name, success, config_hash(check),
                       Some(hash_result.combined_hash), hash_result.file_hashes,
                       metadata, check.per_file)
       IN  /\ cache' = [cache EXCEPT ![f.proj] = c]
           /\ executed' = [executed EXCEPT ![f.proj] = MapInsert(@, f.name, stale_after(success))]
           /\ results' = [results EXCEPT ![f.proj] = IF success THEN add_pass(@, f.name)
                                                                 ELSE add_fail(@, f.name)]
           /\ lock' = save(c, f.proj)
    /\ spawned' = Finish(success)
    /\ stack' = Return
    /\ UNCHANGED <<queryVars, config, files, pc, exit_code, names, force, entered, load_miss, fresh, prior,
                   passed, runs, edits, saveVars>>

\* execute_per_file up to its loop: the stale files, or the early return.
execute_per_file ==
    /\ At("execute_per_file")
    /\ Top.stage = "start"
    /\ LET f == Top
           check == Unwrap(ConfigGet(config[f.proj], f.name))
           hash_result == compute_check_hash(files[f.proj], check.cache_paths)
           cached == get(cache[f.proj], f.name)
           config_changed == IF cached # None /\ Unwrap(cached).config_hash # None
                             THEN Unwrap(Unwrap(cached).config_hash) # config_hash(check)
                             ELSE TRUE
           cached_file_hashes == IF config_changed THEN EmptyMap
                                 ELSE IF cached # None THEN Unwrap(cached).file_hashes
                                 ELSE EmptyMap
           stale_files == get_stale_files_from_cache(cached_file_hashes, hash_result)
       IN  /\ fresh' = fresh \cup {<<f.proj, f.name, p>> :
                                      p \in DOMAIN hash_result.file_hashes \ Range(stale_files)}
           /\ IF stale_files = <<>>
              THEN /\ results' = [results EXCEPT ![f.proj] = add_skipped(@, f.name)]
                   /\ executed' = [executed EXCEPT ![f.proj] = MapInsert(@, f.name, FALSE)]
                   /\ stack' = Return
              ELSE /\ stack' = SetTop([f EXCEPT !.stage = "loop", !.stale = stale_files])
                   /\ UNCHANGED <<results, executed>>
    /\ UNCHANGED <<queryVars, config, files, lock, pc, exit_code, names, force, cache, spawned,
                   entered, load_miss, prior, passed, runs, edits, saveVars>>

\* The head of the loop over the stale files: spawn the command for the next
\* file, or leave the loop and mark the check failed or finalize it, and save.
execute_per_file_loop ==
    /\ At("execute_per_file")
    /\ Top.stage = "loop"
    /\ LET f == Top
           check == Unwrap(ConfigGet(config[f.proj], f.name))
           hash_result == compute_check_hash(files[f.proj], check.cache_paths)
           metadata == IF check.metadata # EmptyMap
                       THEN extract_metadata(Unwrap(check.command), check.metadata)
                       ELSE EmptyMap
           finish(c, res, had) ==
               /\ cache' = [cache EXCEPT ![f.proj] = c]
               /\ executed' = [executed EXCEPT ![f.proj] = MapInsert(@, f.name, had)]
               /\ results' = [results EXCEPT ![f.proj] = res]
               /\ lock' = save(c, f.proj)
               /\ stack' = Return
               /\ spawned' = spawned
       IN  IF f.d < Len(f.stale)
           THEN /\ spawned' = Spawn(f.proj, f.name, f.stale[f.d + 1])
                /\ stack' = SetTop([f EXCEPT !.stage = "command", !.d = f.d + 1])
                /\ UNCHANGED <<cache, executed, results, lock>>
           ELSE IF f.failed # <<>>
           THEN finish(mark_per_file_failed(cache[f.proj], f.name, config_hash(check)),
                       add_fail(results[f.proj], f.name), TRUE)
           ELSE finish(finalize_per_file(cache[f.proj], f.name, config_hash(check),
                                         hash_result.combined_hash, hash_result.file_hashes,
                                         metadata),
                       add_pass(results[f.proj], f.name), FALSE)
    /\ UNCHANGED <<queryVars, config, files, pc, exit_code, names, force, entered, load_miss, fresh, prior,
                   passed, runs, edits, saveVars>>

\* The command of one file returns: on success record the file's hash and
\* save, on failure remember the file and go on.
execute_per_file_command(success) ==
    /\ At("execute_per_file")
    /\ Top.stage = "command"
    /\ LET f == Top
           check == Unwrap(ConfigGet(config[f.proj], f.name))
           hash_result == compute_check_hash(files[f.proj], check.cache_paths)
           file_path == f.stale[f.d]
           c == update_per_file_hash(cache[f.proj], f.name, config_hash(check), file_path,
                                     hash_result.file_hashes[file_path])
       IN  IF success
           THEN /\ cache' = [cache EXCEPT ![f.proj] = c]
                /\ lock' = save(c, f.proj)
                /\ passed' = passed \cup {<<f.proj, f.name, file_path, config_hash(check),
                                            hash_result.file_hashes[file_path]>>}
                /\ stack' = SetTop([f EXCEPT !.stage = "loop"])
           ELSE /\ stack' = SetTop([f EXCEPT !.stage = "loop", !.failed = Append(@, file_path)])
                /\ UNCHANGED <<cache, lock, passed>>
    /\ spawned' = Finish(success)
    /\ UNCHANGED <<queryVars, config, files, pc, exit_code, names, force, executed, results,
                   entered, load_miss, fresh, prior, runs, edits, saveVars>>

\* A subproject whose store is saved into the directory of its parent.
lock_in_parent(parent_root, subproject_dir) == parent_root

\* The directory run_checks_subproject saves the store of the subproject to.
lock_dir(parent_root, subproject_dir) == subproject_dir

\* run_checks_subproject: load the subproject's config and lock and run it;
\* when its run returns, clean and save its lock and hand the results to the
\* caller, which records the subproject in its `executed` table.
run_checks_subproject ==
    /\ At("run_checks_subproject")
    /\ LET f == Top
           sub == Unwrap(get_subproject(config[f.proj], f.name)).path
       IN  IF f.stage = "start"
           THEN /\ cache' = [cache EXCEPT ![sub] = load(lock[sub])]
                /\ executed' = [executed EXCEPT ![sub] = EmptyMap]
                /\ results' = [results EXCEPT ![sub] = NoResults]
                /\ entered' = Append(entered, <<f.proj, f.name>>)
                /\ load_miss' = IF Unusable(lock[sub]) THEN load_miss \cup {sub}
                                                        ELSE load_miss \ {sub}
                /\ stack' = Call([f EXCEPT !.stage = "return"],
                                 Frame("run_checks_recursive", sub, "", f.nm))
                /\ lock' = lock
           ELSE LET c == cleanup_orphaned(cache[sub], ItemNames(config[sub]))
                IN  /\ cache' = [cache EXCEPT ![sub] = c]
                    /\ lock' = save(c, lock_dir(f.proj, sub))
                    /\ executed' = [executed EXCEPT ![f.proj] =
                                       MapInsert(@, f.name, results[sub].failed > 0)]
                    /\ results' = [results EXCEPT ![f.proj] =
                                       add_subproject(@, f.name, results[sub])]
                    /\ entered' = entered
                    /\ load_miss' = load_miss
                    /\ stack' = Return
    /\ UNCHANGED <<queryVars, config, files, pc, exit_code, names, force, spawned, fresh, prior,
                   passed, runs, edits, saveVars>>

-----------------------------------------------------------------------------

\* What the user can ask for: everything, or one name of the root config.
-----------------------------------------------------------------------------
(* verify status (runner.rs)                                               *)

\* The loop of run_status_recursive over the waves: the status of every
\* verification, each recorded in is_stale for its dependents.
RECURSIVE StatusPass(_, _, _, _, _)
StatusPass(proj, order, i, is_stale, statuses) ==
    IF i > Len(order) THEN [is_stale |-> is_stale, statuses |-> statuses]
    ELSE LET check == Unwrap(ConfigGet(config[proj], order[i]))
             hash_result == compute_check_hash(files[proj], check.cache_paths)
             status == compute_status(check, hash_result, load(lock[proj]), is_stale)
         IN  StatusPass(proj, order, i + 1,
                        MapInsert(is_stale, order[i], status.tag # "Verified"),
                        MapInsert(statuses, order[i], status))

RECURSIVE check_has_stale(_)

\* A status that computes no subproject staleness up front.
staleness_not_seeded(proj) == EmptyMap

\* The staleness of the subprojects of a project, computed up front.
SubprojectStaleness(proj) ==
    [name \in {s.name : s \in Range(subprojects(config[proj]))} |->
        check_has_stale(Unwrap(get_subproject(config[proj], name)).path)]

\* The loop of check_has_stale, which returns at the first stale check, and
\* the look at the subprojects that follows it.
RECURSIVE StaleLoop(_, _, _, _)
StaleLoop(proj, order, i, is_stale) ==
    IF i > Len(order)
    THEN \E s \in Range(subprojects(config[proj])) :
            IF s.name \in DOMAIN is_stale THEN is_stale[s.name] ELSE TRUE
    ELSE LET check == Unwrap(ConfigGet(config[proj], order[i]))
             hash_result == compute_check_hash(files[proj], check.cache_paths)
             status == compute_status(check, hash_result, load(lock[proj]), is_stale)
         IN  IF status.tag # "Verified" THEN TRUE
             ELSE StaleLoop(proj, order, i + 1, MapInsert(is_stale, order[i], FALSE))

check_has_stale(proj) ==
    StaleLoop(proj, WaveOrder(config[proj]), 1, SubprojectStaleness(proj))

\* items: (project, check, status) of every check shown; headers: (project,
\* subproject, has_stale) of every subproject header printed.
RECURSIVE run_status_recursive(_, _)
run_status_recursive(proj, filter_name) ==
    LET cfg == config[proj]
        pass == StatusPass(proj, WaveOrder(cfg), 1, SubprojectStaleness(proj), EmptyMap)
        shown == {v \in Range(verifications_only(cfg)) :
                     filter_name = None \/ Unwrap(filter_name) = v.name}
        subs == IF filter_name = None THEN Range(subprojects(cfg)) ELSE {}
        run_status_subproject == [s \in subs |-> run_status_recursive(s.path, None)]
    IN  [items |-> {<<proj, v.name, pass.statuses[v.name]>> : v \in shown}
                   \cup UNION {run_status_subproject[s].items : s \in subs},
         headers |-> {<<proj, s.name, check_has_stale(s.path)>> : s \in subs}
                     \cup UNION {run_status_subproject[s].headers : s \in subs},
         has_unverified |->
             \/ \E v \in shown : pass.statuses[v.name].tag # "Verified"
             \/ \E s \in subs : run_status_subproject[s].has_unverified]

Failed(cmd) == [cmd |-> cmd, error |-> TRUE, items |-> {}, headers |-> {}, has_unverified |-> FALSE]

\* verify status [name]
\* A query that saves the store it has loaded.
lock_rewritten_by_query ==
    [lock EXCEPT !["root"] = Some(to_writer_pretty(load(lock["root"])))]

\* run_status and run_check_trailer read the store and never save it.
lock_after_query == lock

RunStatus(filter_name) ==
    /\ pc # "running"
    /\ report' =
         IF \/ ~validate(config["root"])
            \/ filter_name # None /\ ConfigGet(config["root"], Unwrap(filter_name)) = None
            \/ ~validate_no_cycles(config["root"])
         THEN Failed("status")
         ELSE LET r == run_status_recursive("root", filter_name)
              IN  [cmd |-> "status", error |-> FALSE, items |-> r.items,
                   headers |-> r.headers, has_unverified |-> r.has_unverified]
    /\ pc' = "queried"
    /\ lock' = lock_after_query
    /\ UNCHANGED <<config, files, exit_code, procVars, prior, passed, runs, edits,
                   saveVars, trailer, seeded, msg>>

-----------------------------------------------------------------------------
(* The Verified trailer (trailer.rs, runner.rs)                            *)

TRAILER_HASH_LENGTH == 8

compute_combined_hash(config_hash_, content_hash) ==
    <<"blake3", config_hash_, ":", content_hash>>

\* The first TRAILER_HASH_LENGTH characters of the hex digest; the prefixes
\* of the few digests of the model are taken as distinct.
truncate_hash(hash) == [chars |-> TRAILER_HASH_LENGTH, of |-> hash]

compute_expected_hash(proj, check) ==
    compute_combined_hash(config_hash(check),
                          compute_check_hash(files[proj], check.cache_paths).combined_hash)

\* The checks that have a command and cache paths.
Hashable(proj) ==
    {v \in Range(verifications_only(config[proj])) : v.command # None /\ v.cache_paths # <<>>}

compute_all_expected_hashes(proj) ==
    [name \in {v.name : v \in Hashable(proj)} |->
        compute_expected_hash(proj, Unwrap(ConfigGet(config[proj], name)))]

\* A trailer of every tracked check, verified or not.
hashes_of_all_tracked(proj, c) == compute_all_expected_hashes(proj)

compute_all_hashes(proj, c) ==
    LET fresh_ == {v \in Hashable(proj) :
                     check_staleness(c, v.name,
                                     compute_check_hash(files[proj], v.cache_paths).combined_hash,
                                     config_hash(v)).tag = "Verified"}
    IN  [name \in {v.name : v \in fresh_} |->
            compute_expected_hash(proj, Unwrap(ConfigGet(config[proj], name)))]

\* "name:hash,name:hash,..." as parse_trailer_value reads it back.
format_trailer_value(hashes) == [name \in DOMAIN hashes |-> truncate_hash(hashes[name])]

\* git interpret-trailers --in-place --if-exists replace --trailer "Verified: value":
\* a file without a Verified trailer gets one; in a file that has some, the
\* one closest to the end is deleted and the new one is added at the end.
interpret_trailers(file, value) ==
    IF file = <<>> THEN <<value>> ELSE Append(Front(file), value)

write_trailer(file, hashes) ==
    IF hashes = EmptyMap THEN file
    ELSE interpret_trailers(file, format_trailer_value(hashes))

\* The trailer value as text: a string is the sequence of its characters.
\* The characters of the model in byte order.
CharOrder == <<" ", ",", "1", ":", "=", "a", "b", "k", "p", "r", "x", "y", "|">>
CharRank(ch) == CHOOSE i \in DOMAIN CharOrder : CharOrder[i] = ch

\* The order of the keys of a BTreeMap<String, _>.
RECURSIVE StrLess(_, _)
StrLess(a, b) ==
    IF a = <<>> THEN b # <<>>
    ELSE IF b = <<>> THEN FALSE
    ELSE IF Head(a) = Head(b) THEN StrLess(Tail(a), Tail(b))
    ELSE CharRank(Head(a)) < CharRank(Head(b))

RECURSIVE SortedKeys(_)
SortedKeys(S) ==
    IF S = {} THEN <<>>
    ELSE LET least == CHOOSE a \in S : \A b \in S \ {a} : StrLess(a, b)
         IN  <<least>> \o SortedKeys(S \ {least})

\* &hash[..TRAILER_HASH_LENGTH.min(hash.len())]
truncate_str(hash) ==
    SubSeq(hash, 1, IF Len(hash) < TRAILER_HASH_LENGTH THEN Len(hash) ELSE TRAILER_HASH_LENGTH)

\* .collect::<Vec<_>>().join(",")
RECURSIVE Join(_, _)
Join(pieces, sep) ==
    IF pieces = <<>> THEN <<>>
    ELSE IF Len(pieces) = 1 THEN pieces[1]
    ELSE pieces[1] \o sep \o Join(Tail(pieces), sep)

\* format_trailer_value on text: "name:hash" of every entry in key order,
\* joined by commas.
format_trailer_text(hashes) ==
    LET keys == SortedKeys(DOMAIN hashes)
    IN  Join([i \in DOMAIN keys |-> keys[i] \o <<":">> \o truncate_str(hashes[keys[i]])],
             <<",">>)

\* str::split(','): the pieces between the commas, at least one.
RECURSIVE Split(_, _)
Split(str, sep) ==
    IF \A i \in DOMAIN str : str[i] # sep THEN <<str>>
    ELSE LET at == CHOOSE i \in DOMAIN str : str[i] = sep /\ \A j \in 1..(i - 1) : str[j] # sep
         IN  <<SubSeq(str, 1, at - 1)>> \o Split(SubSeq(str, at + 1, Len(str)), sep)

\* str::trim
RECURSIVE Trim(_)
Trim(str) ==
    IF str = <<>> THEN str
    ELSE IF Head(str) = " " THEN Trim(Tail(str))
    ELSE IF str[Len(str)] = " " THEN Trim(SubSeq(str, 1, Len(str) - 1))
    ELSE str

\* str::split_once(':'): None without a colon, else the text before the
\* first colon and the text after it.
split_once(str, sep) ==
    IF \A i \in DOMAIN str : str[i] # sep THEN None
    ELSE LET at == CHOOSE i \in DOMAIN str : str[i] = sep /\ \A j \in 1..(i - 1) : str[j] # sep
         IN  Some(<<SubSeq(str, 1, at - 1), SubSeq(str, at + 1, Len(str))>>)

\* The loop of parse_trailer_value over the pairs.
RECURSIVE ParsePairs(_, _)
ParsePairs(pairs, map) ==
    IF pairs = <<>> THEN map
    ELSE LET once == split_once(Trim(Head(pairs)), ":")
         IN  ParsePairs(Tail(pairs),
                        IF once = None THEN map
                        ELSE MapInsert(map, Unwrap(once)[1], Unwrap(once)[2]))

parse_trailer_value(value) == ParsePairs(Split(value, ","), EmptyMap)

\* Verification::config_hash on text. The bytes given to the hasher are a
\* sequence of characters; each literal of the code ("command:", "true", the
\* line feed) is one element of its own, which no text of a check contains.
\* The hash function is taken as collision-free: the hash is the bytes.
MetadataSimple(pattern) == [kind |-> "Simple", pattern |-> pattern, replacement |-> <<>>]
MetadataWithReplacement(pattern, replacement) ==
    [kind |-> "WithReplacement", pattern |-> pattern, replacement |-> replacement]

\* u64::to_string
RECURSIVE to_string(_)
to_string(n) ==
    LET digit == <<"0", "1", "2", "3", "4", "5", "6", "7", "8", "9">>[(n % 10) + 1]
    IN  IF n < 10 THEN <<digit>> ELSE to_string(n \div 10) \o <<digit>>

\* Vec<String>::sort
sort(strs) == SortSeq(strs, StrLess)

\* A config_hash that takes the cache paths and the metadata keys in the
\* order it finds them.
unsorted(strs) == strs

\* sorted_paths / sorted_keys of config_hash.
sorted(strs) == sort(strs)

RECURSIVE Concat(_)
Concat(pieces) == IF pieces = <<>> THEN <<>> ELSE Head(pieces) \o Concat(Tail(pieces))

\* metadata is a HashMap: a sequence of entries in its iteration order.
metadata_keys(v) == [i \in DOMAIN v.metadata |-> v.metadata[i].key]
metadata_get(v, key) ==
    v.metadata[CHOOSE i \in DOMAIN v.metadata : v.metadata[i].key = key].pattern

config_hash_text(v) ==
    LET sorted_paths == sorted(v.cache_paths)
        sorted_keys == sorted(metadata_keys(v))
        pattern_bytes(m) == IF m.kind = "Simple" THEN m.pattern
                            ELSE m.pattern \o <<"|">> \o m.replacement
    IN  <<"command:">> \o v.command \o <<"\n">>
        \o <<"cache_paths:">>
        \o Concat([i \in DOMAIN sorted_paths |-> sorted_paths[i] \o <<",">>])
        \o <<"\n">>
        \o <<"timeout:">>
        \o (IF v.timeout_secs # None THEN to_string(Unwrap(v.timeout_secs)) ELSE <<>>)
        \o <<"\n">>
        \o <<"per_file:">> \o (IF v.per_file THEN <<"true">> ELSE <<"false">>) \o <<"\n">>
        \o <<"metadata:">>
        \o Concat([i \in DOMAIN sorted_keys |->
                      sorted_keys[i] \o <<"=">>
                      \o pattern_bytes(metadata_get(v, sorted_keys[i])) \o <<",">>])

\* The Verified trailer of an earlier commit.
OldValue == [name \in {"t"} |-> truncate_hash(<<"blake3", "old">>)]

\* Commit message files: without a Verified trailer, with one, with two.
Messages == {<<>>, <<OldValue>>, <<OldValue, OldValue>>}

\* The user writes the commit message file.
WriteMessage(file) ==
    /\ pc # "running"
    /\ msg' = file
    /\ report' = NoReport
    /\ msg' # msg \/ report' # report
    /\ pc' = "idle"
    /\ UNCHANGED <<config, files, lock, exit_code, procVars, prior, passed, runs, edits,
                   saveVars, trailer, seeded>>

\* verify sign <commit-msg-file>
SignMessage ==
    /\ pc # "running"
    /\ msg' = write_trailer(msg, compute_all_hashes("root", load(lock["root"])))
    /\ report' = [cmd |-> "sign"]
    /\ pc' = "idle"
    /\ UNCHANGED <<config, files, lock, exit_code, procVars, prior, passed, runs, edits,
                   saveVars, trailer, seeded>>

\* verify sign and git commit: the new commit carries the trailer of the
\* checks that are verified now.
Sign ==
    /\ pc # "running"
    /\ LET hashes == compute_all_hashes("root", load(lock["root"]))
       IN  /\ hashes # EmptyMap
           /\ trailer' = Some(format_trailer_value(hashes))
    /\ trailer' # trailer
    /\ pc' = "idle"
    /\ UNCHANGED <<config, files, lock, exit_code, procVars, prior, passed, runs, edits,
                   saveVars, report, seeded, msg>>

\* The loop of run_check_trailer over the waves.
RECURSIVE TrailerPass(_, _, _, _, _)
TrailerPass(order, i, verified_checks, items, filter_name) ==
    IF i > Len(order) THEN items
    ELSE LET check_name == order[i]
             check == Unwrap(ConfigGet(config["root"], check_name))
             expected_hashes == compute_all_expected_hashes("root")
             is_composite == check.command = None
             failed_dep == SelectSeq(check.depends_on, LAMBDA dep : dep \notin verified_checks)
             trailer_value == IF trailer # None /\ check_name \in DOMAIN Unwrap(trailer)
                              THEN Some(Unwrap(trailer)[check_name]) ELSE None
             matched == /\ check_name \in DOMAIN expected_hashes
                        /\ trailer_value = Some(truncate_hash(expected_hashes[check_name]))
             is_verified == IF is_composite THEN failed_dep = <<>> ELSE matched
             status == IF is_verified THEN Verified
                       ELSE IF is_composite THEN DependencyUnverified(failed_dep[1])
                       ELSE IF trailer_value = None THEN NeverRun
                       ELSE FilesChanged(<<>>)
             shown == filter_name = None \/ Unwrap(filter_name) = check_name
         IN  IF ~is_composite /\ check_name \notin DOMAIN expected_hashes
             THEN TrailerPass(order, i + 1, verified_checks, items, filter_name)
             ELSE TrailerPass(order, i + 1,
                              IF is_verified THEN verified_checks \cup {check_name}
                                             ELSE verified_checks,
                              IF shown THEN items \cup {<<"root", check_name, status>>}
                                       ELSE items,
                              filter_name)

\* verify check [name]
RunCheckTrailer(filter_name) ==
    /\ pc # "running"
    /\ report' =
         IF ~validate(config["root"]) \/ ~validate_no_cycles(config["root"])
         THEN Failed("check")
         ELSE LET items == TrailerPass(WaveOrder(config["root"]), 1, {}, {}, filter_name)
              IN  [cmd |-> "check", name |-> filter_name, error |-> FALSE, items |-> items,
                   headers |-> {},
                   has_unverified |-> \E t \in items : t[3].tag # "Verified"]
    /\ pc' = "queried"
    /\ lock' = lock_after_query
    /\ UNCHANGED <<config, files, exit_code, procVars, prior, passed, runs, edits,
                   saveVars, trailer, seeded, msg>>

\* A sync that seeds an entry without its content hash.
seed_without_content(hash_result) == None

\* The content hash run_sync hands to update.
seed_content_hash(hash_result) == Some(hash_result.combined_hash)

\* A sync that asks only whether the trailer names the check.
trailer_has_name(trailer_value, truncated) == trailer_value # None

\* trailer_value == Some(truncated)
trailer_matches(trailer_value, truncated) == trailer_value = Some(truncated)

\* The loop of run_sync over the waves: the store and the names synced.
RECURSIVE SyncPass(_, _, _, _)
SyncPass(order, i, c, synced) ==
    IF i > Len(order) THEN [cache |-> c, synced |-> synced]
    ELSE LET check_name == order[i]
             check == Unwrap(ConfigGet(config["root"], check_name))
             config_hash_ == config_hash(check)
             hash_result == compute_check_hash(files["root"], check.cache_paths)
             combined == compute_combined_hash(config_hash_, hash_result.combined_hash)
             truncated == truncate_hash(combined)
             trailer_hashes == Unwrap(trailer)
             trailer_value == IF check_name \in DOMAIN trailer_hashes
                              THEN Some(trailer_hashes[check_name]) ELSE None
         IN  IF check.command = None \/ check.cache_paths = <<>>
             THEN SyncPass(order, i + 1, c, synced)
             ELSE IF trailer_matches(trailer_value, truncated)
             THEN SyncPass(order, i + 1,
                           update(c, check_name, TRUE, config_hash_,
                                  seed_content_hash(hash_result),
                                  IF check.per_file THEN hash_result.file_hashes ELSE EmptyMap,
                                  EmptyMap, check.per_file),
                           synced \cup {check_name})
             ELSE SyncPass(order, i + 1, c, synced)

\* The root config is rejected when it is loaded or when its graph is built.
bad_config == ~validate(config["root"]) \/ ~validate_no_cycles(config["root"])

\* verify sync
RunSync ==
    /\ pc # "running"
    /\ LET bad == bad_config
           r == SyncPass(WaveOrder(config["root"]), 1, load(lock["root"]), {})
       IN  IF bad THEN report' = Failed("sync") /\ lock' = lock
           ELSE IF trailer = None
           THEN /\ report' = [cmd |-> "sync", error |-> FALSE, items |-> {}, headers |-> {},
                              has_unverified |-> FALSE]
                /\ lock' = lock
           ELSE /\ report' = [cmd |-> "sync", error |-> FALSE,
                              items |-> {<<"root", n, Verified>> : n \in r.synced},
                              headers |-> {}, has_unverified |-> FALSE]
                /\ lock' = IF r.synced # {} THEN save(r.cache, "root") ELSE lock
    /\ seeded' = IF ~bad_config /\ trailer # None /\ Unusable(lock["root"])
                 THEN SyncPass(WaveOrder(config["root"]), 1, new, {}).synced
                 ELSE {}
    /\ pc' = "queried"
    /\ UNCHANGED <<config, files, exit_code, procVars, prior, passed, runs, edits,
                   saveVars, trailer, msg>>

\* What a status or a trailer check is asked for: every check, or the one
\* declared last.
FilterNames == {None, Some(config["root"][Len(config["root"])].name)}

\* A config with aggregates and nested subprojects is run, then edited and
\* committed, then queried once.
NextQuery ==
    \/ edits = MaxQueryEdits /\ pc # "queried" /\ StartRun(<<>>, FALSE)
    \/ \E proj \in Projects, f \in Paths, content \in Contents \cup {NoFile} :
          pc # "queried" /\ EditFile(proj, f, content)
    \/ pc # "queried" /\ Sign
    \/ run_checks_recursive
    \/ run_checks
    \/ execute_item_with_deps
    \/ resolve_and_execute_dep
    \/ execute_verification
    \/ \E success \in BOOLEAN : execute_command(success)
    \/ run_checks_subproject
    \/ \E filter_name \in FilterNames : pc # "queried" /\ RunStatus(filter_name)
    \/ \E filter_name \in FilterNames : pc # "queried" /\ RunCheckTrailer(filter_name)

SpecQuery == InitQuery /\ [][NextQuery]_vars

\* A config is run and committed; then files are edited, items and the lock
\* deleted; then the lock is synced from the trailer, and the config is run.
NextSync ==
    \/ edits = MaxSyncEdits /\ report.cmd # "sync" /\ StartRun(<<>>, FALSE)
    \/ \E f \in Paths, content \in Contents \cup {NoFile} :
          report.cmd # "sync" /\ EditFile("root", f, content)
    \/ \E i \in DOMAIN config["root"] : report.cmd # "sync" /\ RemoveItem("root", i)
    \/ report.cmd # "sync" /\ WriteLock("root", None)
    \/ report.cmd # "sync" /\ Sign
    \/ pc = "queried" /\ StartRun(<<>>, FALSE)
    \/ run_checks_recursive
    \/ run_checks
    \/ execute_item_with_deps
    \/ resolve_and_execute_dep
    \/ execute_verification
    \/ \E success \in BOOLEAN : execute_command(success)
    \/ report.cmd # "sync" /\ RunSync

SpecSync == InitSync /\ [][NextSync]_vars

\* A config is run and its files are edited; a commit message file is
\* written and signed, once or several times.
NextSign ==
    \/ report.cmd # "sign" /\ StartRun(<<>>, FALSE)
    \/ \E f \in Paths, content \in Contents \cup {NoFile} :
          report.cmd # "sign" /\ EditFile("root", f, content)
    \/ \E file \in Messages : WriteMessage(file)
    \/ SignMessage
    \/ run_checks_recursive
    \/ run_checks
    \/ execute_item_with_deps
    \/ resolve_and_execute_dep
    \/ execute_verification
    \/ \E success \in BOOLEAN : execute_command(success)

SpecSign == InitSign /\ [][NextSign]_vars

\* A config with checks without cache paths is run, whole or by name, its
\* files are edited, and its status is asked for.
NextUntracked ==
    \/ \E nm \in {<<>>} \cup {<<n>> : n \in ItemNames(config["root"])} :
          pc # "queried" /\ StartRun(nm, FALSE)
    \/ \E f \in Paths, content \in Contents \cup {NoFile} :
          pc # "queried" /\ EditFile("root", f, content)
    \/ run_checks_recursive
    \/ run_checks
    \/ execute_item_with_deps
    \/ resolve_and_execute_dep
    \/ execute_verification
    \/ \E success \in BOOLEAN : execute_command(success)
    \/ \E filter_name \in FilterNames : pc # "queried" /\ RunStatus(filter_name)

SpecUntracked == InitUntracked /\ [][NextUntracked]_vars

\* What clean is asked for: everything, or one name of some project.
CleanNames == {<<>>} \cup {<<n>> : n \in UNION {ItemNames(config[p]) : p \in Projects}}

\* A config with nested subprojects is run, and the lock of the root is
\* cleaned between the runs.
NextClean ==
    \/ StartRun(<<>>, FALSE)
    \/ \E nm \in CleanNames : Clean(nm)
    \/ run_checks_recursive
    \/ run_checks
    \/ execute_item_with_deps
    \/ resolve_and_execute_dep
    \/ execute_verification
    \/ \E success \in BOOLEAN : execute_command(success)
    \/ run_checks_subproject

SpecClean == InitClean /\ [][NextClean]_vars

\* One call of compute_status on the inputs of the state.
ComputeStatus ==
    /\ pc = "idle"
    /\ LET check == config["root"][1]
           hash_result == compute_check_hash(files["root"], check.cache_paths)
       IN  report' = [cmd |-> "compute_status",
                      status |-> compute_status(check, hash_result, cache["root"],
                                                executed["root"])]
    /\ pc' = "queried"
    /\ UNCHANGED <<config, files, lock, exit_code, procVars, prior, passed, runs, edits,
                   saveVars, trailer, seeded, msg>>

NextStatus == ComputeStatus

\* One call of update on the store in memory.
Update(success, config_hash_, content_hash, per_file) ==
    /\ pc = "idle"
    /\ report.cmd = "none"
    /\ cache' = [cache EXCEPT !["root"] =
                    update(@, "c", success, config_hash_, Some(content_hash),
                           compute_check_hash(files["root"], <<"x*">>).file_hashes,
                           EmptyMap, per_file)]
    /\ report' = [cmd |-> "update", success |-> success, config_hash |-> config_hash_,
                  content_hash |-> content_hash]
    /\ UNCHANGED <<config, files, lock, pc, exit_code, names, force, stack, executed, results,
                   spawned, entered, fresh, load_miss, tmp, prior, passed, runs, edits,
                   saveVars, trailer, seeded, msg>>

\* One call of check_staleness on the updated store.
CheckStaleness(current_content_hash, current_config_hash) ==
    /\ pc = "idle"
    /\ report.cmd = "update"
    /\ report' = [cmd |-> "check_staleness", success |-> report.success,
                  config_hash |-> report.config_hash, content_hash |-> report.content_hash,
                  current_config_hash |-> current_config_hash,
                  current_content_hash |-> current_content_hash,
                  status |-> check_staleness(cache["root"], "c", current_content_hash,
                                             current_config_hash)]
    /\ pc' = "queried"
    /\ UNCHANGED <<config, files, lock, exit_code, procVars, prior, passed, runs, edits,
                   saveVars, trailer, seeded, msg>>

NextStore ==
    \/ \E success \in BOOLEAN, k \in ConfigHashes, h \in ContentHashes, per_file \in BOOLEAN :
          Update(success, k, h, per_file)
    \/ \E h \in ContentHashes, k \in ConfigHashes : CheckStaleness(h, k)

SpecStore == InitStore /\ [][NextStore]_vars

\* The exit code of verify status: 1 with --verify when a displayed check is
\* not verified.
status_exit(verify, has_unverified) == IF verify /\ has_unverified THEN 1 ELSE 0

\* verify status [name] [--verify] with its exit code.
StatusCommand(filter_name, verify) ==
    /\ pc # "running"
    /\ LET bad == \/ ~validate(config["root"])
                  \/ filter_name # None /\ ConfigGet(config["root"], Unwrap(filter_name)) = None
                  \/ ~validate_no_cycles(config["root"])
           r == run_status_recursive("root", filter_name)
       IN  IF bad
           THEN report' = Failed("status") /\ exit_code' = 2
           ELSE /\ report' = [cmd |-> "status", error |-> FALSE, items |-> r.items,
                              headers |-> r.headers, has_unverified |-> r.has_unverified,
                              verify |-> verify, name |-> filter_name]
                /\ exit_code' = status_exit(verify, r.has_unverified)
    /\ pc' = "queried"
    /\ lock' = lock_after_query
    /\ UNCHANGED <<config, files, procVars, prior, passed, runs, edits,
                   saveVars, trailer, seeded, msg>>

NextStale ==
    \/ pc # "queried" /\ StartRun(<<>>, FALSE)
    \/ \E f \in Paths, content \in Contents \cup {NoFile} :
          pc # "queried" /\ EditFile("root", f, content)
    \/ run_checks_recursive
    \/ run_checks
    \/ execute_item_with_deps
    \/ resolve_and_execute_dep
    \/ execute_verification
    \/ \E success \in BOOLEAN : execute_command(success)
    \/ run_checks_subproject
    \/ \E filter_name \in {None} \cup {Some(n) : n \in {"k", "d", "g", "t"}},
          verify \in BOOLEAN :
          pc # "queried" /\ StatusCommand(filter_name, verify)

SpecStale == InitStale /\ [][NextStale]_vars

\* The names status and check are asked about: none, a check, no check.
ReadNames == {None, Some("t"), Some(UnknownName)}

NextRead ==
    \/ pc # "queried" /\ StartRun(<<>>, FALSE)
    \/ \E f \in Paths, content \in Contents \cup {NoFile} :
          pc # "queried" /\ EditFile("root", f, content)
    \/ \E proj \in {"root", "sub"} : \E content \in LockDamage(lock[proj]) :
          pc # "queried" /\ WriteLock(proj, content)
    \/ pc # "queried" /\ Sign
    \/ run_checks_recursive
    \/ run_checks
    \/ execute_item_with_deps
    \/ execute_verification
    \/ \E success \in BOOLEAN : execute_command(success)
    \/ run_checks_subproject
    \/ \E filter_name \in ReadNames : pc # "queried" /\ RunStatus(filter_name)
    \/ \E filter_name \in ReadNames : pc # "queried" /\ RunCheckTrailer(filter_name)

SpecRead == InitRead /\ [][NextRead]_vars

\* The names of the nodes, in the order of their declaration.
NodeOrder == <<"a", "b", "c", "d">>

\* The config with the given nodes and the given dependencies of each.
GraphConfig(nodes, deps) ==
    LET declared == SelectSeq(NodeOrder, LAMBDA n : n \in nodes)
    IN  [i \in DOMAIN declared |->
            Verification(declared[i], Cmd1, <<>>,
                         SelectSeq(NodeOrder, LAMBDA n : n \in deps[declared[i]]), FALSE)]

\* An acyclic dependency graph of up to MaxNodes nodes, nothing on disk, no
\* invocation.
InitWaves ==
    /\ \E nodes \in SUBSET Range(NodeOrder) :
          /\ Cardinality(nodes) <= MaxNodes
          /\ \E deps \in [nodes -> SUBSET nodes] :
                /\ \A n \in nodes : n \notin deps[n]
                /\ validate_no_cycles(GraphConfig(nodes, deps))
                /\ config = [p \in Projects |-> IF p = "root" THEN GraphConfig(nodes, deps)
                                                 ELSE <<>>]
    /\ cache = [p \in Projects |-> new]
    /\ executed = [p \in Projects |-> EmptyMap]
    /\ files = InitFiles
    /\ lock = [p \in Projects |-> None]
    /\ tmp = [p \in Projects |-> None]
    /\ pc = "idle"
    /\ exit_code = -1
    /\ names = <<>>
    /\ force = FALSE
    /\ stack = <<>>
    /\ results = [p \in Projects |-> NoResults]
    /\ spawned = <<>>
    /\ entered = <<>>
    /\ fresh = {}
    /\ load_miss = {}
    /\ prior = {}
    /\ passed = {}
    /\ trailer = None
    /\ report = NoReport
    /\ seeded = {}
    /\ msg = <<>>
    /\ save_pc = "none"
    /\ save_old = None
    /\ save_new = None
    /\ runs = 0
    /\ edits = 0
    /\ saves = 0

\* execution_waves on the graph of the config.
ExecutionWaves ==
    /\ pc = "idle"
    /\ report' = [cmd |-> "execution_waves", waves |-> execution_waves(config["root"])]
    /\ pc' = "queried"
    /\ UNCHANGED <<config, files, lock, exit_code, procVars, prior, passed, runs, edits,
                   saveVars, trailer, seeded, msg>>

NextWaves == ExecutionWaves

SpecWaves == InitWaves /\ [][NextWaves]_vars

\* The checks config_hash is computed for, as text.
TextCommands == {<<"x">>, <<"y">>}
TextPaths == {<<>>, <<<<"a">>>>, <<<<"a">>, <<"b">>>>, <<<<"b">>, <<"a">>>>, <<<<"a", ",", "b">>>>}
TextTimeouts == {None, Some(1)}
TextMetadata ==
    LET k == [key |-> <<"k">>, pattern |-> MetadataSimple(<<"p">>)]
        r == [key |-> <<"r">>, pattern |-> MetadataSimple(<<"p">>)]
    IN  {<<>>,
         <<[key |-> <<"k">>, pattern |-> MetadataSimple(<<"p", "|", "r">>)]>>,
         <<[key |-> <<"k">>, pattern |-> MetadataWithReplacement(<<"p">>, <<"r">>)]>>,
         <<k, r>>,
         <<r, k>>}
TextChecks ==
    [name : {<<"a">>, <<"b">>}, command : TextCommands, cache_paths : TextPaths,
     depends_on : {<<>>, <<<<"x">>>>}, timeout_secs : TextTimeouts, per_file : BOOLEAN,
     metadata : TextMetadata]
TextFields ==
    {"name", "command", "cache_paths", "depends_on", "timeout_secs", "per_file", "metadata"}

\* The fields in which two checks differ.
Changed(v, w) == {field \in TextFields : v[field] # w[field]}

\* A check and an edited copy of it that differs in at most MaxChanged
\* fields, nothing on disk, no invocation.
InitConfigHash ==
    /\ \E v \in TextChecks, w \in TextChecks :
          /\ Cardinality(Changed(v, w)) <= MaxChanged
          /\ config = [p \in Projects |-> IF p = "root" THEN <<v, w>> ELSE <<>>]
    /\ cache = [p \in Projects |-> new]
    /\ executed = [p \in Projects |-> EmptyMap]
    /\ files = InitFiles
    /\ lock = [p \in Projects |-> None]
    /\ tmp = [p \in Projects |-> None]
    /\ pc = "idle"
    /\ exit_code = -1
    /\ names = <<>>
    /\ force = FALSE
    /\ stack = <<>>
    /\ results = [p \in Projects |-> NoResults]
    /\ spawned = <<>>
    /\ entered = <<>>
    /\ fresh = {}
    /\ load_miss = {}
    /\ prior = {}
    /\ passed = {}
    /\ trailer = None
    /\ report = NoReport
    /\ seeded = {}
    /\ msg = <<>>
    /\ save_pc = "none"
    /\ save_old = None
    /\ save_new = None
    /\ runs = 0
    /\ edits = 0
    /\ saves = 0

\* config_hash of the check and of its edited copy, and the answer of
\* check_staleness for the copy, with unchanged files, on the store that a
\* successful run of the check has updated.
ConfigHash ==
    /\ pc = "idle"
    /\ LET v == config["root"][1]
           w == config["root"][2]
           content == compute_check_hash(files["root"], <<"x*">>)
           c == update(cache["root"], v.name, TRUE, config_hash_text(v),
                       Some(content.combined_hash), content.file_hashes, EmptyMap, v.per_file)
       IN  report' = [cmd |-> "config_hash",
                      hashes |-> <<config_hash_text(v), config_hash_text(w)>>,
                      status |-> check_staleness(c, w.name, content.combined_hash,
                                                 config_hash_text(w))]
    /\ pc' = "queried"
    /\ UNCHANGED <<config, files, lock, exit_code, procVars, prior, passed, runs, edits,
                   saveVars, trailer, seeded, msg>>

NextConfigHash == ConfigHash

SpecConfigHash == InitConfigHash /\ [][NextConfigHash]_vars

\* Check names as text: plain, with a colon, with a comma, with a space in
\* front or behind.
TrailerNames ==
    {<<"a">>, <<"b">>, <<"a", ":", "b">>, <<"a", ",", "b">>, <<" ", "a">>, <<"b", " ">>}

\* Hashes as text: shorter than the trailer length, of that length, longer.
TrailerHashes == {[i \in 1..n |-> "1"] : n \in {2, TRAILER_HASH_LENGTH, TRAILER_HASH_LENGTH + 1}}

\* The maps of up to MaxPairs names to hashes.
TrailerMaps ==
    UNION {[D -> TrailerHashes] : D \in {E \in SUBSET TrailerNames : Cardinality(E) <= MaxPairs}}

\* A map of hashes to format, nothing on disk, no invocation.
InitTrailer ==
    /\ \E hashes \in TrailerMaps : trailer = Some(hashes)
    /\ config = [p \in Projects |-> <<>>]
    /\ cache = [p \in Projects |-> new]
    /\ executed = [p \in Projects |-> EmptyMap]
    /\ files = InitFiles
    /\ lock = [p \in Projects |-> None]
    /\ tmp = [p \in Projects |-> None]
    /\ pc = "idle"
    /\ exit_code = -1
    /\ names = <<>>
    /\ force = FALSE
    /\ stack = <<>>
    /\ results = [p \in Projects |-> NoResults]
    /\ spawned = <<>>
    /\ entered = <<>>
    /\ fresh = {}
    /\ load_miss = {}
    /\ prior = {}
    /\ passed = {}
    /\ report = NoReport
    /\ seeded = {}
    /\ msg = <<>>
    /\ save_pc = "none"
    /\ save_old = None
    /\ save_new = None
    /\ runs = 0
    /\ edits = 0
    /\ saves = 0

\* format_trailer_value on the map of the state.
FormatTrailer ==
    /\ pc = "idle"
    /\ report.cmd = "none"
    /\ report' = [cmd |-> "format", value |-> format_trailer_text(Unwrap(trailer))]
    /\ UNCHANGED <<config, files, lock, pc, exit_code, procVars, prior, passed, runs, edits,
                   saveVars, trailer, seeded, msg>>

\* parse_trailer_value on the formatted value, and format_trailer_value on
\* what it returns.
ParseTrailer ==
    /\ pc = "idle"
    /\ report.cmd = "format"
    /\ report' = [cmd |-> "parse", value |-> report.value,
                  parsed |-> parse_trailer_value(report.value),
                  formatted |-> format_trailer_text(parse_trailer_value(report.value))]
    /\ pc' = "queried"
    /\ UNCHANGED <<config, files, lock, exit_code, procVars, prior, passed, runs, edits,
                   saveVars, trailer, seeded, msg>>

NextTrailer == FormatTrailer \/ ParseTrailer

SpecTrailer == InitTrailer /\ [][NextTrailer]_vars

\* Runs and edits, then at most one status followed by one more run.
NextRerun ==
    \/ \E nm \in {<<>>, <<"w">>}, f \in BOOLEAN : report.cmd = "none" /\ StartRun(nm, f)
    \/ \E f \in Paths, content \in Contents \cup {NoFile} :
          report.cmd = "none" /\ EditFile("root", f, content)
    \/ report.cmd = "none" /\ RunStatus(None)
    \/ pc = "queried" /\ StartRun(<<>>, FALSE)
    \/ run_checks_recursive
    \/ run_checks
    \/ execute_item_with_deps
    \/ resolve_and_execute_dep
    \/ execute_verification
    \/ \E success \in BOOLEAN : execute_command(success)

SpecRerun == InitRerun /\ [][NextRerun]_vars

NextAttempt ==
    \/ \E f \in BOOLEAN : StartRun(<<>>, f)
    \/ \E f \in Paths, content \in Contents \cup {NoFile} : EditFile("root", f, content)
    \/ run_checks_recursive
    \/ run_checks
    \/ execute_item_with_deps
    \/ execute_verification
    \/ \E success \in BOOLEAN : execute_command(success)
    \/ execute_per_file
    \/ execute_per_file_loop
    \/ \E success \in BOOLEAN : execute_per_file_command(success)

SpecAttempt == InitAttempt /\ [][NextAttempt]_vars

SpecStatus == InitStatus /\ [][NextStatus]_vars

RequestedNames == {<<>>} \cup {<<n>> : n \in ItemNames(config["root"])}

User ==
    \/ \E proj \in Projects, f \in Paths, content \in Contents \cup {NoFile} :
          EditFile(proj, f, content)
    \/ \E i \in DOMAIN config["root"] : EditConfig(i)
    \/ \E nm \in RequestedNames, f \in BOOLEAN : StartRun(nm, f)
    \/ Interrupt

Next ==
    \/ User
    \/ run_checks_recursive
    \/ run_checks
    \/ execute_item_with_deps
    \/ resolve_and_execute_dep
    \/ execute_verification
    \/ \E success \in BOOLEAN : execute_command(success)
    \/ execute_per_file
    \/ execute_per_file_loop
    \/ \E success \in BOOLEAN : execute_per_file_command(success)
    \/ run_checks_subproject

Spec == Init /\ [][Next]_vars

\* One per-file check alone, with more invocations and edits.
NextPerFile ==
    \/ User
    \/ run_checks_recursive
    \/ run_checks
    \/ execute_item_with_deps
    \/ execute_verification
    \/ execute_per_file
    \/ execute_per_file_loop
    \/ \E success \in BOOLEAN : execute_per_file_command(success)

SpecPerFile == InitPerFile /\ [][NextPerFile]_vars

\* Runs over a verify.lock that something else has damaged in between.
NextLoad ==
    \/ \E proj \in {p \in Projects : config[p] # <<>>} :
          \E content \in LockDamage(lock[proj]) : WriteLock(proj, content)
    \/ \E nm \in RequestedNames, f \in BOOLEAN : StartRun(nm, f)
    \/ Interrupt
    \/ run_checks_recursive
    \/ run_checks
    \/ execute_item_with_deps
    \/ resolve_and_execute_dep
    \/ execute_verification
    \/ \E success \in BOOLEAN : execute_command(success)
    \/ execute_per_file
    \/ execute_per_file_loop
    \/ \E success \in BOOLEAN : execute_per_file_command(success)
    \/ run_checks_subproject

SpecLoad == InitLoad /\ [][NextLoad]_vars

\* Runs before and after an item is deleted from a config.
NextOrphan ==
    \/ \E proj \in Projects : \E i \in DOMAIN config[proj] : RemoveItem(proj, i)
    \/ \E nm \in RequestedNames, f \in BOOLEAN : StartRun(nm, f)
    \/ Interrupt
    \/ run_checks_recursive
    \/ run_checks
    \/ execute_item_with_deps
    \/ resolve_and_execute_dep
    \/ execute_verification
    \/ \E success \in BOOLEAN : execute_command(success)
    \/ execute_per_file
    \/ execute_per_file_loop
    \/ \E success \in BOOLEAN : execute_per_file_command(success)
    \/ run_checks_subproject

SpecOrphan == InitOrphan /\ [][NextOrphan]_vars

\* One invocation over valid and invalid configs, known and unknown names.
NextOnce ==
    \/ \E nm \in RequestedNames \cup {<<UnknownName>>}, f \in BOOLEAN : StartRun(nm, f)
    \/ Interrupt
    \/ run_checks_recursive
    \/ run_checks
    \/ execute_item_with_deps
    \/ resolve_and_execute_dep
    \/ execute_verification
    \/ \E success \in BOOLEAN : execute_command(success)
    \/ execute_per_file
    \/ execute_per_file_loop
    \/ \E success \in BOOLEAN : execute_per_file_command(success)
    \/ run_checks_subproject

SpecOnce == InitOnce /\ [][NextOnce]_vars

-----------------------------------------------------------------------------
(* CacheState::save step by step (cache.rs)                                *)

\* Stores of the per-file check p as execute_per_file has them when it saves:
\* empty, one file recorded, both recorded, finalized.
StoreOne ==
    update_per_file_hash(new, "p", config_hash(PerFileConfig[1]), "x1", hash_file(1))
StoreTwo ==
    update_per_file_hash(StoreOne, "p", config_hash(PerFileConfig[1]), "x2", hash_file(1))
StoreFinal ==
    finalize_per_file(StoreTwo, "p", config_hash(PerFileConfig[1]),
                      compute_check_hash(InitFiles["root"], <<"x*">>).combined_hash,
                      compute_check_hash(InitFiles["root"], <<"x*">>).file_hashes, EmptyMap)
SaveStores == {new, StoreOne, StoreTwo, StoreFinal}

\* A process holding the store c calls save for the root project.
SaveBegin(c) ==
    /\ save_pc \in {"none", "returned", "crashed"}
    /\ saves > 0
    /\ saves' = saves - 1
    /\ cache' = [cache EXCEPT !["root"] = c]
    /\ save_old' = lock["root"]
    /\ save_new' = Some(to_writer_pretty(c))
    /\ save_pc' = "create"
    /\ UNCHANGED <<queryVars, config, files, lock, tmp, pc, exit_code, names, force, stack, executed,
                   results, spawned, entered, load_miss, fresh, prior, passed, runs, edits>>

\* A save that creates the file under the name of the lock itself.
save_create_in_place ==
    /\ save_pc = "create"
    /\ lock' = [lock EXCEPT !["root"] = Some(Prefix(cache["root"], 0))]
    /\ save_pc' = "write"
    /\ UNCHANGED <<queryVars, config, files, tmp, pc, exit_code, procVars, prior, passed, runs, edits,
                   save_old, save_new, saves>>

\* File::create(&temp_path): verify.lock.tmp exists and is empty.
save_create ==
    /\ save_pc = "create"
    /\ tmp' = [tmp EXCEPT !["root"] = Some(Prefix(cache["root"], 0))]
    /\ save_pc' = "write"
    /\ UNCHANGED <<queryVars, config, files, lock, pc, exit_code, procVars, prior, passed, runs, edits,
                   save_old, save_new, saves>>

\* to_writer_pretty through the BufWriter: the next chunk of the text reaches
\* verify.lock.tmp; after the last one the writer is dropped.
save_write ==
    /\ save_pc = "write"
    /\ tmp["root"] # None
    /\ LET content == Unwrap(tmp["root"])
       IN  IF content.len < FullLen(content.text)
           THEN /\ tmp' = [tmp EXCEPT !["root"] = Some(Prefix(content.text, content.len + 1))]
                /\ save_pc' = "write"
           ELSE /\ tmp' = tmp
                /\ save_pc' = "rename"
    /\ UNCHANGED <<queryVars, config, files, lock, pc, exit_code, procVars, prior, passed, runs, edits,
                   save_old, save_new, saves>>

\* fs::rename(&temp_path, &lock_path), then Ok(()).
save_rename ==
    /\ save_pc = "rename"
    /\ lock' = [lock EXCEPT !["root"] = tmp["root"]]
    /\ tmp' = [tmp EXCEPT !["root"] = None]
    /\ save_pc' = "returned"
    /\ UNCHANGED <<queryVars, config, files, pc, exit_code, procVars, prior, passed, runs, edits,
                   save_old, save_new, saves>>

\* The process is killed inside save: the disk stays as it is.
Crash ==
    /\ save_pc \in {"create", "write", "rename"}
    /\ save_pc' = "crashed"
    /\ cache' = [cache EXCEPT !["root"] = new]
    /\ UNCHANGED <<queryVars, config, files, lock, tmp, pc, exit_code, names, force, stack, executed,
                   results, spawned, entered, load_miss, fresh, prior, passed, runs, edits,
                   save_old, save_new, saves>>

NextSave ==
    \/ \E c \in SaveStores : SaveBegin(c)
    \/ save_create
    \/ save_write
    \/ save_rename
    \/ Crash

SpecSave == InitSave /\ [][NextSave]_vars

TypeOK ==
    /\ saves \in 0..MaxSaves
    /\ save_pc \in {"none", "create", "write", "rename", "returned", "crashed"}
    /\ pc \in {"idle", "running", "exited", "interrupted", "aborted", "queried"}
    /\ exit_code \in {-1, 0, 1, 2}
    /\ runs \in 0..MaxPerFileRuns
    /\ edits \in 0..MaxPerFileEdits

-----------------------------------------------------------------------------
(* Vocabulary of the properties                                            *)

\* The tracked checks of a project: a command and at least one cache path.
TrackedChecks(proj) ==
    {v \in Range(config[proj]) :
        v.kind = "verification" /\ v.command # None /\ v.cache_paths # <<>>}

CurrentHash(proj, v) == compute_check_hash(files[proj], v.cache_paths)

\* The entry of a check in verify.lock as the next invocation will load it.
LockEntry(proj, name) == get(load(lock[proj]), name)

\* The commands of this invocation that have returned with the given result.
Returned(proj, name, result) ==
    {spawned[i].file : i \in {j \in DOMAIN spawned :
        spawned[j].proj = proj /\ spawned[j].name = name /\ spawned[j].result = result}}

DirectDeps(proj, name) ==
    IF ConfigGet(config[proj], name) = None THEN {}
    ELSE Range(Unwrap(ConfigGet(config[proj], name)).depends_on)

RECURSIVE Reach(_, _, _)
Reach(proj, from, n) ==
    IF n = 0 THEN from
    ELSE Reach(proj, from \cup UNION {DirectDeps(proj, x) : x \in from}, n - 1)

\* Everything a check depends on, directly or through other checks.
TransitiveDeps(proj, name) ==
    Reach(proj, DirectDeps(proj, name), Len(config[proj]))

HasCycle(cfg_proj) ==
    \E n \in ItemNames(config[cfg_proj]) : n \in TransitiveDeps(cfg_proj, n)

-----------------------------------------------------------------------------
(* Properties                                                              *)

\* C1: when a direct dependency of a check has been recorded as failed in this
\* invocation, the command of the check is never spawned, and once the check
\* is decided it is counted as a failure and recorded as failed itself.
C1_FailedDependencyBlocksDependent ==
    \A proj \in Projects : \A name \in ItemNames(config[proj]) :
        (\E dep \in DirectDeps(proj, name) :
            dep \in DOMAIN executed[proj] /\ executed[proj][dep])
        => /\ \A i \in DOMAIN spawned :
                ~(spawned[i].proj = proj /\ spawned[i].name = name)
           /\ name \in DOMAIN executed[proj] => executed[proj][name]

\* C2: after any sequence of invocations, interrupts and edits, a per-file
\* check that check_staleness reports Verified for the current config hash
\* and content hash has had its command succeed, under that config, on every
\* file that matches now, with the content the file has now.
C2_VerifiedMeansSucceeded ==
    pc # "running" =>
        \A proj \in Projects : \A v \in {w \in TrackedChecks(proj) : w.per_file} :
            LET hr == CurrentHash(proj, v)
                st == check_staleness(load(lock[proj]), v.name, hr.combined_hash,
                                      config_hash(v))
            IN  st.tag = "Verified" =>
                    \A file \in DOMAIN hr.file_hashes :
                        <<proj, v.name, file, config_hash(v), hr.file_hashes[file]>>
                            \in passed

\* C3: after a run without a name filter has exited 0, and while files and
\* config are unchanged, the lock entry of every tracked check of the root
\* project that still has a matching file holds a content hash equal to the
\* current combined hash.
C3_ExitZeroLeavesContentHash ==
    (pc = "exited" /\ exit_code = 0 /\ names = <<>>) =>
        \A v \in TrackedChecks("root") :
            DOMAIN CurrentHash("root", v).file_hashes # {} =>
                /\ LockEntry("root", v.name) # None
                /\ Unwrap(LockEntry("root", v.name)).content_hash
                       = Some(CurrentHash("root", v).combined_hash)

\* C4: execute_per_file skips the command of a file only if the command has
\* succeeded before on the file's current content under the current config
\* hash of the check.
C4_SkippedFileHasSucceeded ==
    \A t \in fresh :
        LET v == Unwrap(ConfigGet(config[t[1]], t[2]))
        IN  <<t[1], t[2], t[3], config_hash(v), CurrentHash(t[1], v).file_hashes[t[3]]>>
                \in passed

\* C5: after a run in which the command of at least one file of a per-file
\* check failed, the exit code is 1, every file that was stale has been
\* executed, the entry has no content hash, every file that succeeded is
\* recorded with its current hash, and no file that failed is recorded in
\* file_hashes with its current hash.
C5_PerFileFailureOutcome ==
    pc = "exited" =>
        \A v \in {w \in TrackedChecks("root") : w.per_file} :
            Returned("root", v.name, "fail") # {} =>
                LET hr == CurrentHash("root", v)
                    e == Unwrap(LockEntry("root", v.name))
                IN  /\ exit_code = 1
                    /\ LockEntry("root", v.name) # None
                    /\ e.content_hash = None
                    /\ \A file \in DOMAIN hr.file_hashes :
                          \/ <<"root", v.name, file>> \in fresh
                          \/ file \in Returned("root", v.name, "ok")
                                        \cup Returned("root", v.name, "fail")
                    /\ \A file \in Returned("root", v.name, "ok") :
                          MapGet(e.file_hashes, file) = Some(hr.file_hashes[file])
                    /\ \A file \in Returned("root", v.name, "fail") :
                          MapGet(e.file_hashes, file) # Some(hr.file_hashes[file])

\* C6: the files of a per-file check whose commands succeeded in a run that
\* was then interrupted are not executed again by the next run, files and
\* config being unchanged, whatever the lock entry held before the
\* interrupted run.
C6_InterruptedProgressKept ==
    ~force =>
        \A i \in DOMAIN spawned :
            <<spawned[i].proj, spawned[i].name, spawned[i].file>> \notin prior

\* C7: when the command of a check is spawned, every check and subproject it
\* depends on, directly or transitively, has been decided in this invocation
\* and no other command is running, also when only the dependent was
\* requested by name.
C7_DependenciesDecidedFirst ==
    /\ \A i \in DOMAIN spawned :
          \A dep \in TransitiveDeps(spawned[i].proj, spawned[i].name) :
              dep \in DOMAIN executed[spawned[i].proj]
    /\ \A i \in DOMAIN spawned : spawned[i].result = "running" => i = Len(spawned)

\* Only d was requested, and its command is running after a, b and c.
C7_Witness ==
    /\ names = <<"d">>
    /\ \E i \in DOMAIN spawned : spawned[i].name = "d" /\ spawned[i].result = "running"
    /\ \E i \in DOMAIN spawned : spawned[i].name = "a"
    /\ {"a", "b", "c"} \subseteq DOMAIN executed["root"]

\* C8: within one invocation no command is spawned twice for the same check
\* (and file), no check is recorded twice in the results, and no subproject is
\* run twice.
C8_ExecutedAtMostOnce ==
    /\ \A i, j \in DOMAIN spawned :
          (/\ spawned[i].proj = spawned[j].proj
           /\ spawned[i].name = spawned[j].name
           /\ spawned[i].file = spawned[j].file) => i = j
    /\ \A proj \in Projects : \A i, j \in DOMAIN results[proj].results :
          results[proj].results[i].name = results[proj].results[j].name => i = j
    /\ \A i, j \in DOMAIN entered : entered[i] = entered[j] => i = j

\* The second dependent of the diamond asks for a, which has been executed.
C8_Witness ==
    /\ At("resolve_and_execute_dep")
    /\ Top.name = "a" /\ Top.stage = "start"
    /\ "a" \in DOMAIN executed["root"]
    /\ "b" \in DOMAIN executed["root"]
    /\ \E i \in DOMAIN spawned : spawned[i].name = "a" /\ spawned[i].result # "running"

\* C9: verify run on a configuration with a dependency cycle spawns no
\* command and ends with exit code 2.
C9_CycleIsConfigError ==
    HasCycle("root") =>
        /\ spawned = <<>>
        /\ pc # "aborted"
        /\ pc = "exited" => exit_code = 2

\* C10: while save runs and after a crash inside it, verify.lock is what it
\* was before the save or the complete new text, and it always parses; when
\* save has returned, verify.lock is the new text and verify.lock.tmp is gone.
C10_SaveIsAtomic ==
    /\ save_pc # "none" => lock["root"] \in {save_old, save_new}
    /\ lock["root"] # None => from_str(Unwrap(lock["root"])) # None
    /\ save_pc = "returned" => lock["root"] = save_new /\ tmp["root"] = None

\* A crash has left half of the new text in verify.lock.tmp, and verify.lock
\* still holds the different text of the save before.
C10_Witness ==
    /\ save_pc = "crashed"
    /\ tmp["root"] # None
    /\ Unwrap(tmp["root"]).len > 0
    /\ from_str(Unwrap(tmp["root"])) = None
    /\ save_old # None
    /\ save_old # save_new
    /\ lock["root"] = save_old

\* The projects whose store this invocation has loaded.
LoadedProjects ==
    {"root"} \cup {Unwrap(get_subproject(config[entered[i][1]], entered[i][2])).path :
                      i \in DOMAIN entered}

CommandChecks(proj) ==
    {v \in Range(config[proj]) : v.kind = "verification" /\ v.command # None}

\* Every command of the check has been spawned by this invocation: the one
\* command of an ordinary check, one per matching file of a per-file check.
FullyExecuted(proj, v) ==
    IF v.per_file
    THEN \A file \in DOMAIN CurrentHash(proj, v).file_hashes :
            \E i \in DOMAIN spawned :
                spawned[i].proj = proj /\ spawned[i].name = v.name /\ spawned[i].file = file
    ELSE \E i \in DOMAIN spawned : spawned[i].proj = proj /\ spawned[i].name = v.name

\* C12: load answers a verify.lock that is missing, unreadable, unparsable or
\* of another version with the empty store at the engine's version, and a
\* run without name filter that found the lock of a project so and has
\* completed has executed every check of the project that has a command and
\* left a lock that parses at the engine's version.
C12_LoadFallsBackToEmpty ==
    /\ \A p \in Projects :
          /\ load(lock[p]).version = CACHE_VERSION
          /\ Unusable(lock[p]) => load(lock[p]) = new
    /\ (pc = "exited" /\ exit_code \in {0, 1} /\ names = <<>>) =>
          \A p \in load_miss :
              /\ \A v \in CommandChecks(p) : FullyExecuted(p, v)
              /\ ~Unusable(lock[p])

\* A second run without filter has found the root lock unusable after it
\* was damaged or left unwritten, has executed a tracked check and has
\* completed with exit code 0.
C12_Witness ==
    /\ pc = "exited"
    /\ exit_code = 0
    /\ names = <<>>
    /\ runs = 0
    /\ edits = 0
    /\ "root" \in load_miss
    /\ spawned # <<>>
    /\ \E v \in TrackedChecks("root") : FullyExecuted("root", v)

\* Some command of this invocation, in the root or in an executed
\* subproject, has exited non-zero.
SomeCheckFailed == \E i \in DOMAIN spawned : spawned[i].result = "fail"

\* C13: run ends with exit code 2 when the root config is rejected or a
\* requested name is not a name of the root config; otherwise it ends with
\* 0 if and only if no check of the executed tree failed, and with 1 if and
\* only if at least one did.
C13_ExitCode ==
    pc = "exited" =>
        IF \/ ~validate(config["root"])
           \/ \E i \in DOMAIN names : names[i] \notin ItemNames(config["root"])
        THEN exit_code = 2
        ELSE /\ exit_code = 0 <=> ~SomeCheckFailed
             /\ exit_code = 1 <=> SomeCheckFailed

\* The place of a check among the outcomes its project has collected so far.
IsExecuted(proj, name) ==
    \E i \in DOMAIN results[proj].results : results[proj].results[i].name = name
Position(proj, name) ==
    CHOOSE i \in DOMAIN results[proj].results : results[proj].results[i].name = name

Independent(proj, a, b) ==
    a \notin TransitiveDeps(proj, b) /\ b \notin TransitiveDeps(proj, a)

\* Two checks of one config, the first declared before the second, neither
\* depending on the other, both executed by this invocation.
IndependentPair(proj, i, j) ==
    /\ i < j
    /\ config[proj][i].kind = "verification"
    /\ config[proj][j].kind = "verification"
    /\ Independent(proj, config[proj][i].name, config[proj][j].name)
    /\ IsExecuted(proj, config[proj][i].name)
    /\ IsExecuted(proj, config[proj][j].name)

RequestedClosure(proj) ==
    LET root == Range(names) \cup UNION {TransitiveDeps("root", n) : n \in Range(names)}
    IN  IF proj = "root" THEN root
        ELSE IF \E i \in DOMAIN config["root"] :
                    /\ config["root"][i].kind = "subproject"
                    /\ config["root"][i].path = proj
                    /\ config["root"][i].name \in root
             THEN ItemNames(config[proj])
             ELSE {}

\* C15: in a run with a non-empty name filter every command spawned belongs
\* to a requested check, to one of its transitive dependencies or to the
\* sub-config of a subproject among them, and no step of the run changes the
\* lock entry of any other check of the config.
C15_FilteredRunFrame ==
    [][(pc = "running" /\ names # <<>>) =>
          /\ \A i \in DOMAIN spawned' :
                spawned'[i].name \in RequestedClosure(spawned'[i].proj)
          /\ \A proj \in Projects :
                \A name \in ItemNames(config[proj]) \ RequestedClosure(proj) :
                    get(load(lock'[proj]), name) = LockEntry(proj, name)]_vars

\* A run of a alone has completed and spawned its command while the lock
\* holds the entry an earlier run wrote for d.
C15_Witness ==
    /\ pc = "exited"
    /\ exit_code \in {0, 1}
    /\ names = <<"a">>
    /\ spawned # <<>>
    /\ config["root"] = DiamondConfig
    /\ LockEntry("root", "d") # None

\* The names a lock of the project can hold or a config can declare.
AllNames(proj) == ItemNames(config[proj]) \cup DOMAIN cache[proj].checks

\* C16: cleanup_orphaned(S) removes exactly the entries whose name is not in
\* S and changes no other; no step of a run removes the lock entry of a name
\* of the config; and when a run completes with exit code 0 or 1 the lock of
\* the root and of every subproject it has executed holds no entry whose
\* name is absent from the config.
C16_OrphansRemovedOthersKept ==
    [][pc = "running" =>
          /\ \A proj \in Projects : \A S \in SUBSET AllNames(proj) :
                LET c == cleanup_orphaned(cache[proj], S)
                IN  /\ DOMAIN c.checks = (DOMAIN cache[proj].checks) \cap S
                    /\ \A n \in DOMAIN c.checks : c.checks[n] = cache[proj].checks[n]
                    /\ c.version = cache[proj].version
          /\ \A proj \in Projects : \A name \in ItemNames(config[proj]) :
                LockEntry(proj, name) # None => get(load(lock'[proj]), name) # None
          /\ (pc' = "exited" /\ exit_code' \in {0, 1}) =>
                \A proj \in LoadedProjects :
                    DOMAIN load(lock'[proj]).checks \subseteq ItemNames(config[proj])]_vars

\* A run has completed after d was deleted from the config: the lock still
\* has the entry of a and none for d.
C16_Witness ==
    /\ pc = "exited"
    /\ exit_code \in {0, 1}
    /\ runs = 0
    /\ edits = 0
    /\ config["root"] = SubSeq(DiamondConfig, 2, Len(DiamondConfig))
    /\ LockEntry("root", "a") # None
    /\ LockEntry("root", "d") = None

\* The aggregates of the root config.
Aggregates == {v \in Range(verifications_only(config["root"])) : v.command = None}

\* What status says of every check of the root, shown or not.
StatusOf(name) ==
    StatusPass("root", WaveOrder(config["root"]), 1, SubprojectStaleness("root"),
               EmptyMap).statuses[name]

\* A dependency of a root check counts as unverified in status when it is a
\* check whose status is not Verified or a subproject that is stale.
UnverifiedInStatus(dep) ==
    IF get_subproject(config["root"], dep) # None
    THEN check_has_stale(Unwrap(get_subproject(config["root"], dep)).path)
    ELSE StatusOf(dep).tag # "Verified"

\* In the trailer check a dependency that is a check counts as unverified
\* unless the check is reported Verified; a subproject as in status.
UnverifiedInTrailerCheck(dep) ==
    IF get_subproject(config["root"], dep) # None
    THEN check_has_stale(Unwrap(get_subproject(config["root"], dep)).path)
    ELSE <<"root", dep, Verified>> \notin TrailerPass(WaveOrder(config["root"]), 1, {}, {}, None)

AggregateInStatus ==
    (pc = "queried" /\ report.cmd = "status" /\ ~report.error) =>
        \A g \in Aggregates : \A t \in report.items :
            (t[1] = "root" /\ t[2] = g.name) =>
                (t[3].tag = "Unverified" <=> \E dep \in Range(g.depends_on) : UnverifiedInStatus(dep))
                /\ t[3].tag \in {"Unverified", "Verified"}

AggregateInTrailerCheck ==
    (pc = "queried" /\ report.cmd = "check" /\ ~report.error) =>
        \A g \in Aggregates : \A t \in report.items :
            (t[1] = "root" /\ t[2] = g.name) =>
                (t[3].tag = "Unverified" <=> \E dep \in Range(g.depends_on) : UnverifiedInTrailerCheck(dep))
                /\ t[3].tag \in {"Unverified", "Verified"}

\* In run an aggregate is recorded failed exactly when a dependency is, and
\* no command is ever spawned for a check that has none.
AggregateInRun ==
    /\ \A i \in DOMAIN spawned :
          Unwrap(ConfigGet(config[spawned[i].proj], spawned[i].name)).command # None
    /\ \A g \in Aggregates :
          g.name \in DOMAIN executed["root"] =>
             (executed["root"][g.name] <=>
                 \E dep \in Range(g.depends_on) :
                     dep \in DOMAIN executed["root"] /\ executed["root"][dep])

\* C17: in status, in the trailer check and in run an aggregate is
\* unverified if some dependency of it is unverified and verified otherwise,
\* be the dependency a tracked check, an untracked check, an aggregate or a
\* subproject, and no process is spawned for an aggregate.
C17_AggregateFollowsDependencies ==
    /\ AggregateInStatus
    /\ AggregateInTrailerCheck
    /\ AggregateInRun

\* What status says of a check of any project.
ProjectStatus(proj, name) ==
    StatusPass(proj, WaveOrder(config[proj]), 1, SubprojectStaleness(proj), EmptyMap).statuses[name]

\* Every check of the project and of the subprojects below it is verified.
RECURSIVE DescendantsVerified(_)
DescendantsVerified(proj) ==
    /\ \A v \in Range(verifications_only(config[proj])) :
          ProjectStatus(proj, v.name).tag = "Verified"
    /\ \A s \in Range(subprojects(config[proj])) : DescendantsVerified(s.path)

\* The lock entry of the check holds the current config hash and the
\* current content hash.
InputsUnchanged(proj, v) ==
    check_staleness(load(lock[proj]), v.name, CurrentHash(proj, v).combined_hash,
                    config_hash(v)).tag = "Verified"

\* C18: in a status of the whole tree a subproject is shown stale exactly
\* when status shows some check of it not verified or some subproject of it
\* stale, at every depth; and a check with a command and cache paths whose
\* dependencies are subprojects is reported Verified when every check below
\* those subprojects is verified and its own lock entry matches its inputs.
C18_SubprojectStaleness ==
    (pc = "queried" /\ report.cmd = "status" /\ ~report.error) =>
        /\ \A h \in report.headers :
              LET path == Unwrap(get_subproject(config[h[1]], h[2])).path
              IN  h[3] <=> \/ \E t \in report.items : t[1] = path /\ t[3].tag # "Verified"
                           \/ \E h2 \in report.headers : h2[1] = path /\ h2[3]
        /\ \A t \in report.items :
              LET v == Unwrap(ConfigGet(config[t[1]], t[2]))
              IN  (/\ v \in Hashable(t[1])
                   /\ v.depends_on # <<>>
                   /\ \A dep \in Range(v.depends_on) :
                         /\ get_subproject(config[t[1]], dep) # None
                         /\ DescendantsVerified(Unwrap(get_subproject(config[t[1]], dep)).path)
                   /\ InputsUnchanged(t[1], v))
                  => t[3] = Verified

\* A status of the whole tree shows the subproject s and the subproject
\* nested in it not stale and reports w, which depends on s, Verified.
C18_Witness ==
    /\ pc = "queried"
    /\ report.cmd = "status"
    /\ <<"root", "s", FALSE>> \in report.headers
    /\ <<"sub", "r", FALSE>> \in report.headers
    /\ <<"root", "w", Verified>> \in report.items

\* The files of a check whose content is not what it was when the runs of
\* SpecQuery took place (they all precede the edits).
ModifiedSinceRun(proj, v) ==
    {f \in DOMAIN CurrentHash(proj, v).file_hashes :
        InitFiles[proj][f] # NoFile /\ files[proj][f] # InitFiles[proj][f]}

\* The tracked files of a check are those of the runs, one or more of them
\* with another content.
OnlyContentChanged(proj, v) ==
    /\ ModifiedSinceRun(proj, v) # {}
    /\ \A f \in TrackedPaths(proj) :
          (\E i \in DOMAIN v.cache_paths : f \in glob(v.cache_paths[i])) =>
              (files[proj][f] = NoFile <=> InitFiles[proj][f] = NoFile)

\* C19: when the command of an ordinary check succeeded in the last run and
\* the content of one of its tracked files has been changed since, status
\* reports the check Unverified{FilesChanged} and changed_files holds
\* "M <path>" for that file and nothing else.
C19_ChangedFileListedAsModified ==
    (pc = "queried" /\ report.cmd = "status" /\ ~report.error) =>
        \A t \in report.items :
            LET v == Unwrap(ConfigGet(config[t[1]], t[2]))
                e == LockEntry(t[1], t[2])
            IN  (/\ v \in Hashable(t[1])
                 /\ ~v.per_file
                 /\ v.depends_on = <<>>
                 /\ e # None
                 /\ Unwrap(e).content_hash # None
                 /\ OnlyContentChanged(t[1], v)
                 /\ Cardinality(ModifiedSinceRun(t[1], v)) = 1)
                => /\ t[3].reason = "FilesChanged"
                   /\ t[3].changed_files =
                         <<<<"M", CHOOSE f \in ModifiedSinceRun(t[1], v) : TRUE>>>>

\* The checks of the root whose current expected truncated hash is the value
\* the trailer carries for their name.
MatchesTrailer ==
    {v.name : v \in {w \in Hashable("root") :
        /\ trailer # None
        /\ w.name \in DOMAIN Unwrap(trailer)
        /\ Unwrap(trailer)[w.name] = truncate_hash(compute_expected_hash("root", w))}}

\* The names sync can meet: those of the config, of the lock, of the trailer.
SyncNames ==
    ItemNames(config["root"]) \cup DOMAIN load(lock["root"]).checks
    \cup (IF trailer = None THEN {} ELSE DOMAIN Unwrap(trailer))

\* C20: a sync reports as verified, and writes the lock entry of, only checks
\* whose current expected truncated hash equals the value the trailer
\* carries for their name, and a check it reports is verified afterwards;
\* the entry of every other name, in the config or not, stays as it was.
C20_SyncOnlyOnMatch ==
    [][(pc # "queried" /\ pc' = "queried" /\ report'.cmd = "sync") =>
          /\ \A t \in report'.items :
                /\ t[2] \in MatchesTrailer
                /\ InputsUnchanged("root", Unwrap(ConfigGet(config["root"], t[2])))'
          /\ \A n \in SyncNames \ MatchesTrailer :
                get(load(lock'["root"]), n) = LockEntry("root", n)]_vars

\* A sync over a deleted lock has written the entry of t, which matches the
\* trailer, and none for w, which the trailer names with another hash.
C20_Witness ==
    /\ pc = "queried"
    /\ report.cmd = "sync"
    /\ <<"root", "t", Verified>> \in report.items
    /\ LockEntry("root", "t") # None
    /\ trailer # None
    /\ "w" \in DOMAIN Unwrap(trailer)
    /\ "w" \in ItemNames(config["root"])
    /\ LockEntry("root", "w") = None

\* The names whose lock entry is Verified for the current config and files.
VerifiedNames ==
    {v.name : v \in {w \in Hashable("root") : InputsUnchanged("root", w)}}

\* C21: a sync leaves the entry of every check that does not match the
\* trailer, or that the trailer does not name, exactly as it was, and an
\* entry that was Verified before the sync is Verified after it with all
\* its data.
C21_SyncIsAdditive ==
    [][(pc # "queried" /\ pc' = "queried" /\ report'.cmd = "sync") =>
          /\ \A n \in SyncNames \ MatchesTrailer :
                get(load(lock'["root"]), n) = LockEntry("root", n)
          /\ \A n \in VerifiedNames :
                get(load(lock'["root"]), n) = LockEntry("root", n)]_vars

\* C22: after a sync has seeded a missing lock with every tracked check of
\* the config, the entry of each seeded check has the current config hash,
\* the current content hash and no metadata, and the run that follows spawns
\* no command of a seeded check and reports each of them as skipped.
C22_SeededThenSkipped ==
    (seeded # {} /\ seeded = {v.name : v \in CommandChecks("root")}) =>
        \A n \in seeded :
            LET v == Unwrap(ConfigGet(config["root"], n))
            IN  /\ LockEntry("root", n) # None
                /\ Unwrap(LockEntry("root", n)).config_hash = Some(config_hash(v))
                /\ Unwrap(LockEntry("root", n)).content_hash =
                       Some(CurrentHash("root", v).combined_hash)
                /\ Unwrap(LockEntry("root", n)).metadata = EmptyMap
                /\ \A i \in DOMAIN spawned : spawned[i].name # n
                /\ pc = "exited" =>
                       /\ exit_code = 0
                       /\ \E i \in DOMAIN results["root"].results :
                             results["root"].results[i] = [name |-> n, result |-> "skipped"]

\* The run after a sync that seeded t and w into a missing lock has ended:
\* w, whose command reports metadata, was skipped.
C22_Witness ==
    /\ pc = "exited"
    /\ seeded = {"t", "w"}
    /\ seeded = {v.name : v \in CommandChecks("root")}
    /\ results["root"].skipped >= 2
    /\ spawned = <<>>

\* C23: when every check has been run with success and the commit carries
\* the trailer sign writes for that state, a trailer check of the whole
\* config reports every check with a command as Verified, in the root and in
\* the subprojects below it; and a tracked check of the root whose inputs
\* differ from those the trailer pins is reported unverified, with exit 1.
C23_TrailerRoundtrip ==
    (pc = "queried" /\ report.cmd = "check" /\ ~report.error /\ report.name = None) =>
        /\ trailer = Some(format_trailer_value(compute_all_hashes("root", load(lock["root"]))))
             => \A proj \in Projects : \A C \in CommandChecks(proj) :
                   InputsUnchanged(proj, C) => <<proj, C.name, Verified>> \in report.items
        /\ \A C \in Hashable("root") :
              (/\ trailer # None
               /\ C.name \in DOMAIN Unwrap(trailer)
               /\ C.name \notin MatchesTrailer)
              => /\ \E t \in report.items :
                       t[1] = "root" /\ t[2] = C.name /\ t[3].tag = "Unverified"
                 /\ report.has_unverified

\* C24: the names of the trailer value sign writes are exactly the checks of
\* the root config that have a command and cache paths and whose lock entry
\* holds the current config hash and the current content hash; no
\* aggregate, no untracked check, no subproject and no check whose entry is
\* missing or stale is among them.
C24_TrailerNamesAreTheVerified ==
    [][trailer' # trailer =>
          /\ trailer' # None
          /\ \A n \in ItemNames(config["root"]) \cup DOMAIN Unwrap(trailer') :
                n \in DOMAIN Unwrap(trailer') <=>
                   \E i \in DOMAIN config["root"] :
                      LET v == config["root"][i]
                          e == LockEntry("root", n)
                      IN  /\ v.name = n
                          /\ v.kind = "verification"
                          /\ v.command # None
                          /\ v.cache_paths # <<>>
                          /\ e # None
                          /\ Unwrap(e).config_hash = Some(config_hash(v))
                          /\ Unwrap(e).content_hash = Some(CurrentHash("root", v).combined_hash)]_vars

\* Sign has written a trailer that names w and leaves out t, a tracked
\* check whose lock entry is not verified.
C24_Witness ==
    /\ pc = "idle"
    /\ trailer # None
    /\ "w" \in DOMAIN Unwrap(trailer)
    /\ "t" \notin DOMAIN Unwrap(trailer)
    /\ \E v \in Hashable("root") : v.name = "t" /\ ~InputsUnchanged("root", v)
    /\ \E v \in Range(config["root"]) : v.name = "k" /\ LockEntry("root", "k") # None

\* C25: after sign the commit message file carries exactly one Verified
\* trailer, and its value is the trailer value of the checks that are
\* verified now, whatever the file carried before and whichever checks are
\* verified.
C25_SignLeavesOneCurrentTrailer ==
    report.cmd = "sign" =>
        /\ Len(msg) = 1
        /\ msg[1] = format_trailer_value(compute_all_hashes("root", load(lock["root"])))

\* The checks of the root that have a command and no cache paths.
UntrackedChecks == CommandChecks("root") \ Hashable("root")

\* A run that has ended has spawned the command of every check without
\* cache paths that it was asked for, by name or with the whole config or
\* as a dependency, and has reported none of them as skipped.
UntrackedAlwaysRuns ==
    (pc = "exited" /\ exit_code \in {0, 1}) =>
        \A C \in UntrackedChecks :
            (names = <<>> \/ C.name \in RequestedClosure("root")) =>
                /\ \E i \in DOMAIN spawned : spawned[i].proj = "root" /\ spawned[i].name = C.name
                /\ \A i \in DOMAIN results["root"].results :
                      results["root"].results[i] # [name |-> C.name, result |-> "skipped"]

C27_ForceExecutesAll ==
    (pc = "exited" /\ exit_code \in {0, 1} /\ force /\ names = <<>>) =>
        \A v \in CommandChecks("root") : FullyExecuted("root", v)

\* The names declared by the config of a project.
Declared(proj) == ItemNames(verifications_only(config[proj]))

\* C28: every project has its own lock: a step writes an entry only into
\* the lock of the project whose config declares the check, the lock of a
\* parent holds no entry of a check of its subprojects, and a clean of the
\* root leaves the lock of every subproject as it is.
C28_LocksAreIsolated ==
    [][/\ \A p \in Projects : \A n \in UNION {Declared(q) : q \in Projects} :
             (get(load(lock'[p]), n) # LockEntry(p, n) /\ get(load(lock'[p]), n) # None)
                 => n \in Declared(p)
       /\ \A p \in Projects : DOMAIN load(lock'[p]).checks \subseteq Declared(p)
       /\ edits' # edits => \A p \in Projects \ {"root"} : lock'[p] = lock[p]]_vars

\* The root has been cleaned after a run: its lock holds no entry, the locks
\* of the subprojects hold theirs.
C28_Witness ==
    /\ pc = "idle"
    /\ edits < MaxCleans
    /\ lock["root"] # None
    /\ DOMAIN load(lock["root"]).checks = {}
    /\ LockEntry("sub", "u") # None
    /\ LockEntry("deep", "v") # None

\* The answer of the rule cascade up to the last rule, or None when only the
\* last rule is left.
EarlierRule(check, dep_staleness) ==
    LET stale == {i \in DOMAIN check.depends_on :
                     check.depends_on[i] \notin DOMAIN dep_staleness
                     \/ dep_staleness[check.depends_on[i]]}
    IN  IF stale # {}
        THEN Some(DependencyUnverified(
                 check.depends_on[CHOOSE i \in stale : \A j \in stale : i <= j]))
        ELSE IF check.command = None THEN Some(Verified)
        ELSE IF check.cache_paths = <<>> THEN Some(Untracked)
        ELSE None

\* check_staleness on the inputs of the state.
StoreAnswer ==
    LET check == config["root"][1]
    IN  check_staleness(cache["root"], check.name, CurrentHash("root", check).combined_hash,
                        config_hash(check))

\* C29 as stated: the first stale dependency, else Verified for an
\* aggregate, else Untracked without cache paths, else the answer of
\* check_staleness.
C29_CascadeEndsInCheckStaleness ==
    report.cmd = "compute_status" =>
        LET earlier == EarlierRule(config["root"][1], executed["root"])
        IN  report.status = IF earlier # None THEN Unwrap(earlier) ELSE StoreAnswer

\* C29: the first stale dependency in declaration order (a dependency the
\* staleness map does not name counts as stale), else Verified for an
\* aggregate, else Untracked without cache paths, else the answer of
\* check_staleness, in which a FilesChanged carries the changed files that
\* find_changed_files computes from the file hashes of the entry.
C29_CascadeWithChangedFiles ==
    report.cmd = "compute_status" =>
        LET check == config["root"][1]
            earlier == EarlierRule(check, executed["root"])
        IN  report.status =
                IF earlier # None THEN Unwrap(earlier)
                ELSE IF StoreAnswer.reason = "FilesChanged"
                THEN FilesChanged(find_changed_files(
                         cache["root"].checks[check.name].file_hashes,
                         CurrentHash("root", check).file_hashes))
                ELSE StoreAnswer

\* compute_status has named the second dependency of a check without cache
\* paths: the first is not stale, the second is missing from the map.
C29_Witness ==
    /\ report.cmd = "compute_status"
    /\ config["root"][1].depends_on = <<"d1", "d2">>
    /\ config["root"][1].command # None
    /\ config["root"][1].cache_paths = <<>>
    /\ DOMAIN executed["root"] = {"d1"}
    /\ ~executed["root"]["d1"]
    /\ report.status = DependencyUnverified("d2")

\* The step completes an execution attempt of the root check `name`: the
\* results of the run get its pass or its fail.
Attempted(name, result) ==
    /\ pc = "running"
    /\ results'["root"].results = Append(results["root"].results,
                                         [name |-> name, result |-> result])

\* C30 as stated: after a completed execution attempt of a check, ordinary or
\* per-file, passed or failed, the lock entry of the check has the current
\* config hash, has a content hash iff the attempt succeeded, and has empty
\* metadata if the attempt failed.
C30_EntryAfterAttempt ==
    [][\A v \in CommandChecks("root"), result \in {"pass", "fail"} :
          Attempted(v.name, result) =>
              /\ v.name \in DOMAIN load(lock'["root"]).checks
              /\ LET e == load(lock'["root"]).checks[v.name]
                 IN  /\ e.config_hash = Some(config_hash(v))
                     /\ (e.content_hash # None) <=> (result = "pass")
                     /\ result = "fail" => e.metadata = EmptyMap]_vars

\* C31 as stated: after a failed update, check_staleness answers NeverRun
\* whatever content hash and config hash it is asked about.
C31_FailedIsNeverRun ==
    (report.cmd = "check_staleness" /\ ~report.success) => report.status = NeverRun

\* C32: after a successful update with config hash c and content hash h,
\* check_staleness answers Verified for (h, c), FilesChanged for another
\* content hash with c, and ConfigChanged for any content hash with another
\* config hash.
C32_StalenessAfterSuccess ==
    (report.cmd = "check_staleness" /\ report.success) =>
        report.status =
            IF report.current_config_hash # report.config_hash THEN ConfigChanged
            ELSE IF report.current_content_hash # report.content_hash THEN FilesChanged(<<>>)
            ELSE Verified

\* check_staleness has been asked, after a successful update, about another
\* config hash and another content hash at once.
C32_Witness ==
    /\ report.cmd = "check_staleness"
    /\ report.success
    /\ report.current_config_hash # report.config_hash
    /\ report.current_content_hash # report.content_hash
    /\ report.status = ConfigChanged

\* The step decides the root check v in execute_verification.
Decides(v) ==
    /\ At("execute_verification")
    /\ Top.stage = "start"
    /\ Top.proj = "root"
    /\ Top.name = v.name
    /\ ~already_executed(executed["root"], v.name)

\* The invocation has recorded one of the given results for the root check.
Decided(name, outcomes) ==
    \E i \in DOMAIN results["root"].results :
        /\ results["root"].results[i].name = name
        /\ results["root"].results[i].result \in outcomes

\* The entry of v in the store of the invocation matches the current config
\* hash and content hash of v.
EntryMatches(v) ==
    /\ get(cache["root"], v.name) # None
    /\ Unwrap(get(cache["root"], v.name)).config_hash = Some(config_hash(v))
    /\ Unwrap(get(cache["root"], v.name)).content_hash =
           Some(CurrentHash("root", v).combined_hash)

\* C33: in a run without --force, a check with a command whose dependencies
\* have all been decided without a failure in this invocation (re-executed
\* successfully or skipped) and whose own entry matches its current config
\* hash and content hash is skipped as cached, and one with a failed
\* dependency has its command spawned.
C33_OnlyFailureMakesStale ==
    [][\A v \in CommandChecks("root") :
          (Decides(v) /\ v.depends_on # <<>>) =>
              /\ (/\ ~force
                  /\ \A dep \in Range(v.depends_on) : Decided(dep, {"pass", "skipped"})
                  /\ EntryMatches(v))
                 => /\ results'["root"] = add_skipped(results["root"], v.name)
                    /\ spawned' = spawned
              /\ (\E dep \in Range(v.depends_on) : Decided(dep, {"fail"}))
                 => spawned' = Spawn("root", v.name, "")]_vars

\* status reported w DependencyUnverified because of t; the run that followed
\* re-executed t successfully and skipped w.
C33_Witness ==
    /\ report.cmd = "status"
    /\ <<"root", "w", DependencyUnverified("t")>> \in report.items
    /\ pc = "exited"
    /\ \E i \in DOMAIN spawned : spawned[i].name = "t" /\ spawned[i].result = "ok"
    /\ results["root"].results =
           <<[name |-> "t", result |-> "pass"], [name |-> "w", result |-> "skipped"]>>

\* The checks of a project that have a command and no cache paths.
UntrackedIn(proj) ==
    {v.name : v \in {x \in CommandChecks(proj) : x.cache_paths = <<>>}}

\* C34: in the report of status, every displayed check that depends on an
\* untracked check is DependencyUnverified, the header of a subproject that
\* holds an untracked check says stale, and when a displayed check is
\* Untracked the report counts an unverified check and status --verify
\* exits 1.
C34_UntrackedCountsAsStale ==
    (report.cmd = "status" /\ ~report.error) =>
        /\ \A item \in report.items :
              LET v == Unwrap(ConfigGet(config[item[1]], item[2]))
              IN  (\E i \in DOMAIN v.depends_on : v.depends_on[i] \in UntrackedIn(item[1]))
                  => /\ item[3].tag = "Unverified"
                     /\ item[3].reason = "DependencyUnverified"
        /\ \A h \in report.headers :
              LET sub == Unwrap(get_subproject(config[h[1]], h[2])).path
              IN  UntrackedIn(sub) # {} => h[3]
        /\ (\E item \in report.items : item[3] = Untracked)
           => /\ report.has_unverified
              /\ report.verify => exit_code = 1

\* status --verify k after a run in which every command passed: k has an
\* entry in the lock and is still Untracked, and the exit code is 1.
C34_Witness ==
    /\ report.cmd = "status"
    /\ ~report.error
    /\ report.verify
    /\ report.name = Some("k")
    /\ report.items = {<<"root", "k", Untracked>>}
    /\ LockEntry("root", "k") # None
    /\ Unwrap(LockEntry("root", "k")).content_hash # None
    /\ exit_code = 1

\* C35: a step of status or of check leaves the verify.lock of every project
\* as it was, missing, damaged or whole, and leaves no temporary file.
C35_QueriesLeaveTheLock ==
    [][(pc # "queried" /\ pc' = "queried") => (lock' = lock /\ tmp' = tmp)]_vars

\* status has answered while the root has no verify.lock and the one of the
\* subproject is there and cannot be used.
C35_Witness ==
    /\ pc = "queried"
    /\ report.cmd = "status"
    /\ ~report.error
    /\ lock["root"] = None
    /\ lock["sub"] # None
    /\ Unusable(lock["sub"])

\* C36 as stated: formatting what parse_trailer_value reads from a formatted
\* value gives the value back, for every map of names to hashes.
C36_FormatParseRoundtrip ==
    report.cmd = "parse" => report.formatted = report.value

\* The cache paths of a check as a set.
PathSet(v) == Range(v.cache_paths)

\* The metadata patterns of a check by key.
PatternMap(v) == {<<v.metadata[i].key, v.metadata[i].pattern>> : i \in DOMAIN v.metadata}

\* The two checks differ in what C37 lists: the command, the set of cache
\* paths, the timeout, per_file or a metadata pattern.
InputsDiffer(v, w) ==
    \/ v.command # w.command
    \/ PathSet(v) # PathSet(w)
    \/ v.timeout_secs # w.timeout_secs
    \/ v.per_file # w.per_file
    \/ PatternMap(v) # PatternMap(w)

\* C37 as stated: a change to the command, the set of cache paths, the
\* timeout, per_file or a metadata pattern changes config_hash, and the entry
\* of a successful run is not Verified for the changed check.
C37_ChangeChangesHash ==
    (report.cmd = "config_hash" /\ InputsDiffer(config["root"][1], config["root"][2])) =>
        /\ report.hashes[1] # report.hashes[2]
        /\ report.status # Verified

\* One sequence is the other in another order.
IsPermutation(a, b) ==
    /\ Len(a) = Len(b)
    /\ \A x \in Range(a) \cup Range(b) :
          Cardinality({i \in DOMAIN a : a[i] = x}) = Cardinality({i \in DOMAIN b : b[i] = x})

\* The two checks differ at most in the order of the cache paths, the
\* iteration order of the metadata, the name and depends_on.
OnlyWiringDiffers(v, w) ==
    /\ v.command = w.command
    /\ v.timeout_secs = w.timeout_secs
    /\ v.per_file = w.per_file
    /\ IsPermutation(v.cache_paths, w.cache_paths)
    /\ IsPermutation(v.metadata, w.metadata)

\* C38 as stated: checks that differ only in the order of cache_paths, the
\* iteration order of the metadata keys, the name or depends_on have the same
\* config_hash, and the entry of a successful run of the one is Verified for
\* the other.
C38_WiringKeepsVerification ==
    (report.cmd = "config_hash" /\ OnlyWiringDiffers(config["root"][1], config["root"][2])) =>
        /\ report.hashes[1] = report.hashes[2]
        /\ report.status = Verified

\* C38: checks that differ only in the order of cache_paths, the iteration
\* order of the metadata keys, the name or depends_on have the same
\* config_hash; the entry of a successful run of the one is Verified for the
\* other when the name is the same, and the other is NeverRun when the name
\* differs, the store being keyed by name.
C38_WiringKeepsHash ==
    (report.cmd = "config_hash" /\ OnlyWiringDiffers(config["root"][1], config["root"][2])) =>
        /\ report.hashes[1] = report.hashes[2]
        /\ report.status = IF config["root"][1].name = config["root"][2].name
                           THEN Verified ELSE NeverRun

\* config_hash has been computed for two checks of the same name whose cache
\* paths and metadata come in another order.
C38_Witness ==
    /\ report.cmd = "config_hash"
    /\ OnlyWiringDiffers(config["root"][1], config["root"][2])
    /\ Changed(config["root"][1], config["root"][2]) = {"cache_paths", "metadata"}
    /\ report.hashes[1] = report.hashes[2]
    /\ report.status = Verified

\* The waves in which the node occurs, once for every occurrence.
WavesOf(waves, n) ==
    UNION {{<<i, j>> : j \in {k \in DOMAIN waves[i] : waves[i][k] = n}} : i \in DOMAIN waves}

\* C39: the waves of an acyclic graph hold every node exactly once and
\* nothing else, every dependency of a node is in an earlier wave, and every
\* node is in the first wave after the waves of all its dependencies.
C39_WavesAreEarliestPartition ==
    report.cmd = "execution_waves" =>
        LET cfg == config["root"]
            waves == report.waves
            wave(n) == CHOOSE i \in DOMAIN waves : \E j \in DOMAIN waves[i] : waves[i][j] = n
        IN  /\ \A i \in DOMAIN waves : Range(waves[i]) \subseteq ItemNames(cfg) /\ waves[i] # <<>>
            /\ \A n \in ItemNames(cfg) : Cardinality(WavesOf(waves, n)) = 1
            /\ \A i \in DOMAIN cfg :
                  /\ \A dep \in Range(cfg[i].depends_on) : wave(dep) < wave(cfg[i].name)
                  /\ \/ wave(cfg[i].name) = 1
                     \/ \E dep \in Range(cfg[i].depends_on) : wave(dep) = wave(cfg[i].name) - 1

\* execution_waves has put two independent nodes in the first wave and a
\* node that depends on them in the second.
C39_Witness ==
    /\ report.cmd = "execution_waves"
    /\ Len(report.waves) = 2
    /\ Len(report.waves[1]) = 2
    /\ \E i \in DOMAIN config["root"] : Len(config["root"][i].depends_on) = 2

====
